---- MODULE Spec2Model ----
(***************************************************************************)
(* Build / deploy / reconcile orchestration of ocp-midstreamer.            *)
(*                                                                         *)
(* One module, several specifications, one per subsystem:                  *)
(*   SpecWait   deploy/wait.rs      wait_for_reconciliation                *)
(*   SpecPatch  deploy/operator.rs  patch_operator_deployment_env          *)
(*   SpecBuild  build.rs + main.rs  build_components_parallel, run_multi   *)
(*   SpecTc     setup.rs            ensure_tektonconfig                    *)
(* Every specification leaves the variables of the other subsystems at     *)
(* their idle values.                                                      *)
(***************************************************************************)
EXTENDS Integers, Sequences, FiniteSets, TLC

VARIABLES
  \* ---- cluster state read by the reconciliation waiter
  tc_conditions,   \* status.conditions of TektonConfig "config"
  pod_images,      \* namespace -> set of container images of the Tekton pods
  \* ---- wait_for_reconciliation (deploy/wait.rs)
  w_pc,            \* position in wait_for_reconciliation
  expected_images, \* argument: list of <<env key, image ref>>
  attempt,         \* loop variable of `for attempt in 1..=max_retries`
  delay_secs,      \* local delay_secs
  config_ready,    \* local config_ready of the current poll
  images_ok,       \* local images_ok of the current poll
  w_result,        \* "none" while running; then "ok", "err_api", "err_exhausted"
  w_trace,         \* history: the polls, sleeps and the final probe, in order
  w_delays,        \* history: the durations slept, in order
  w_probes,        \* history: number of calls of check_tektonconfig_ready
  g_ready,         \* history: <<attempt, cluster Ready at the readiness probe>>
  g_images,        \* history: <<attempt, no expected image missing at the pod listing>>
  \* ---- cluster state used by ensure_tektonconfig (setup.rs)
  crd_served,      \* the TektonConfig CRD is registered and served
  tc_exists,       \* TektonConfig "config" exists
  \* ---- ensure_tektonconfig (setup.rs)
  t_pc,            \* position in ensure_tektonconfig
  t_attempt,       \* loop variable of `for attempt in 1..=max_retries`
  backoff,         \* local backoff, in seconds
  t_result,        \* "none" while running; then "ok" or "err"
  t_delays,        \* history: the durations slept, in order
  t_errors,        \* history: the errors of the failed creates, as printed, in order
  t_creates,       \* history: number of create calls issued
  \* ---- build_image_mappings and patch_operator_deployment_env (deploy/)
  live_dep,        \* the operator Deployment as stored in the cluster
  cfg_images,      \* config: the component's map image name -> env key
  built_images,    \* argument: names of the built images
  mappings,        \* the ImageMapping: list of <<env key, image ref>>
  p_pc,            \* position in the mapping and patch steps
  p_round,         \* 1 for the first application of the mapping, 2 for the second
  p_dep,           \* local dep of patch_operator_deployment_env
  p_result,        \* "none" while running; then "ok" or the error
  p_read,          \* history: the Deployment as read by this application
  p_first,         \* history: the Deployment left by the first application
  p_writes,        \* history: number of replace calls issued
  \* ---- run_multi (main.rs) and build_components_parallel (build.rs)
  specs,           \* argument: the component names of the ComponentSpecs
  fault,           \* per spec: the stage at which its pipeline is made to fail
  dry_run,         \* argument dry_run
  image_override,  \* argument image_override is Some
  m_pc,            \* position in run_multi
  b_spawned,       \* number of tasks spawned into the JoinSet so far
  task,            \* per spawned task: its phase
  outcome,         \* per finished task: the (name, Result) it returns
  joined,          \* tasks whose outcome join_next has handed out
  results,         \* local results of build_components_parallel, then of run_multi
  build_failed,    \* local build_failed of run_multi
  all_images,      \* local all_images of run_multi
  exit_code,       \* -1 while running, then the value returned by run_multi
  jobs,            \* history: the in-cluster Jobs created, in order
  \* ---- cluster objects touched by the bootstrap and by the deploy flow
  reg_mgmt,        \* spec.managementState of the image registry config ("" when absent)
  reg_route,       \* spec.defaultRoute of the image registry config
  reg_storage,     \* spec.storage of the image registry config
  route_exists,    \* Route default-route exists in openshift-image-registry
  ns_exists,       \* the image namespace exists
  rb_exists,       \* RoleBinding image-puller-all-authenticated exists in it
  sub_exists,      \* Subscription openshift-pipelines-operator exists
  op_available,    \* an operator Deployment reports Available=True
  \* ---- run_deploy (deploy/mod.rs) and the deploy command of main (main.rs)
  d_verbose,       \* argument _verbose
  d_pc,            \* index of the step of run_deploy in progress, or a final position
  d_steps,         \* history: the steps attempted, in order
  d_failed,        \* the step whose error run_deploy returned, "" if none
  d_wait,          \* what wait_for_reconciliation returned, "none" before it has
  d_warned,        \* the reconciliation warning has been printed
  d_result,        \* "none" while running; then "ok", "err" or "panic"
  d_writes,        \* history: the create calls issued for the RoleBinding
  d_exit,          \* -1 while running, then the exit code of the deploy command
  d_mutations,     \* history: the writes this run_deploy applied to the cluster, in order
  \* ---- run_auto_setup and its six steps (setup.rs)
  s_pc,            \* position in run_auto_setup and in the step in progress
  s_step,          \* number of the step in progress, 1..6
  s_ret,           \* what the step in progress returned: "ok" or the kind of its error
  s_run,           \* 1 in the first run of the bootstrap, 2 in a second one
  s_first,         \* history: the cluster objects as the first run left them
  s_result,        \* "none" while running; then what run_auto_setup returned
  s_trace,         \* history: the steps attempted in this run, in order
  s_outcomes,      \* history: what each finished step of this run returned
  warnings,        \* local warnings, as the numbers of the steps that pushed one
  s_patch,         \* local spec_patch of ensure_registry_route: the fields it holds
  s_writes,        \* history: the create and patch calls issued in this run
  s_read_failed,   \* history: a read of the second run met an API error
  s_clock,         \* seconds elapsed since `start` of the poll in progress
  s_prev,          \* history: the elapsed time at the previous timeout test of the poll
  s_probes,        \* history: number of probes made by the poll in progress
  s_seen,          \* history: the last probe observed what the poll waits for
  \* ---- main (main.rs): one invocation of the build, deploy or run command
  a_cmd,           \* the subcommand: "build", "deploy" or "run"
  a_flags,         \* --no-auto-setup, --skip-build, --dry-run, --date-range, in-cluster
  a_n,             \* number of component specs of the run command
  a_pc,            \* position in main
  a_i,             \* loop variable of `for spec in specs` in run_deploy_and_test
  a_boot,          \* how run_auto_setup ended: "none", "ok", "err", "panic"
  a_boots,         \* history: number of calls of run_auto_setup
  a_events,        \* history: the calls made by this invocation, in order
  a_exit,          \* process exit code, -1 while running
  a_tasks,         \* the run_deploy task spawned for each spec: "idle", "get", "replace", "done"
  a_log,           \* history: the reads and writes of the operator Deployment, <<spec, call>>
  \* ---- find_operator_deployment (deploy/operator.rs)
  f_answers,       \* what the API server answers to the probe of each candidate
  f_pc,            \* index of the next candidate to probe; 0 when not running or returned
  f_probed,        \* history: the candidates probed, in order
  f_result,        \* "none" while running; then "ok", "err_list" or "not_found"
  f_found,         \* the candidate whose probe produced the returned pair, or 0
  \* ---- delete_installer_sets (deploy/operator.rs)
  i_component,     \* argument component
  i_override,      \* argument prefix_override, None when absent
  i_items,         \* sets.items: the installer sets as listed, by metadata.name
  i_live,          \* cluster: the names of the installer sets that exist
  i_pc,            \* index of the next item of sets.items; 0 before the list call
  deleted,         \* local deleted
  i_attempts,      \* history: the names passed to api.delete, in order
  i_failures,      \* history: the names whose deletion failed
  i_result,        \* "none" while running; then "ok" or "err_list"
  \* ---- the joins of built images against comp.images (deploy/mapping.rs, build.rs)
  r_images,        \* comp.images of the component: image name -> env key
  r_refs,          \* final_refs of run_build_with_refs: <<short name, pullspec>>, in build order
  r_result,        \* what the mapping step of run_build_with_refs returned
  r_warned,        \* history: the short names run_build_with_refs warned about
  r_mappings,      \* what build_image_mappings returned for the same names
  \* ---- sync_docker_config (registry.rs)
  y_src,           \* content of ~/.config/containers/auth.json
  y_dst,           \* content of ~/.docker/config.json
  y_prior,         \* history: the content of ~/.docker/config.json before the call
  y_pc,            \* "idle", "call" before sync_docker_config runs, "done" after
  \* ---- optimistic concurrency of the operator Deployment (operator.rs)
  live_rv,         \* metadata.resourceVersion of the live operator Deployment
  p_rv,            \* metadata.resourceVersion of the object the patch holds; 0 before the read
  \* ---- resolve_git_ref (component.rs)
  ref_in,          \* the user's ref, a sequence of characters
  ref_out,         \* resolve_git_ref(ref_in)
  ref_again,       \* resolve_git_ref(ref_out)
  ref_pc,          \* "idle", "call", "resolved", "again"
  \* ---- to_internal_registry (deploy/mod.rs)
  ir_in,           \* the registry address given to run_deploy, a sequence of pieces
  ir_out,          \* to_internal_registry(ir_in)
  ir_again,        \* to_internal_registry(ir_out)
  ir_pc,           \* "idle", "call", "converted", "again"
  \* ---- run_batch_historical (main.rs, batch.rs)
  h_dates,         \* number of dates generate_dates returned
  h_dry,           \* the dry_run argument
  h_pc,            \* "idle", "start", "loop", "mkdir", "spawn", "exited"
  progress,        \* the BatchProgress
  h_codes,         \* history: the exit code recorded for each date, in order
  h_exit           \* return value of run_batch_historical, -1 before it returns

clusterVars == <<tc_conditions, pod_images>>
waitVars == <<w_pc, expected_images, attempt, delay_secs, config_ready, images_ok,
              w_result, w_trace, w_delays, w_probes, g_ready, g_images>>

tcVars == <<crd_served, tc_exists, t_pc, t_attempt, backoff, t_result, t_delays, t_errors,
           t_creates>>

patchVars == <<live_dep, cfg_images, built_images, mappings, p_pc, p_round, p_dep,
              p_result, p_read, p_first, p_writes>>

buildVars == <<specs, fault, dry_run, image_override, m_pc, b_spawned, task, outcome,
              joined, results, build_failed, all_images, exit_code, jobs>>

k8sVars == <<reg_mgmt, reg_route, reg_storage, route_exists, ns_exists, rb_exists,
            sub_exists, op_available>>

deployVars == <<d_verbose, d_pc, d_steps, d_failed, d_wait, d_warned, d_result, d_writes,
               d_exit, d_mutations>>

regVars == <<reg_mgmt, reg_route, reg_storage>>

setupCtl == <<s_pc, s_step, s_ret>>
setupRun == <<s_run, s_first, s_result>>
setupHist == <<s_trace, s_outcomes, warnings>>
setupEff == <<s_patch, s_writes, s_read_failed>>
setupPoll == <<s_clock, s_prev, s_probes, s_seen>>
setupVars == <<setupCtl, setupRun, setupHist, setupEff, setupPoll>>

mainVars == <<a_cmd, a_flags, a_n, a_pc, a_i, a_boot, a_boots, a_events, a_exit, a_tasks,
              a_log>>

findVars == <<f_answers, f_pc, f_probed, f_result, f_found>>

invVars == <<i_component, i_override, i_items, i_live, i_pc, deleted, i_attempts, i_failures, i_result>>

refsVars == <<r_images, r_refs, r_result, r_warned, r_mappings>>

syncVars == <<y_src, y_dst, y_prior, y_pc>>

versionVars == <<live_rv, p_rv>>

refVars == <<ref_in, ref_out, ref_again, ref_pc>>

internalVars == <<ir_in, ir_out, ir_again, ir_pc>>

batchVars == <<h_dates, h_dry, h_pc, progress, h_codes, h_exit>>

vars == <<clusterVars, waitVars, tcVars, patchVars, buildVars, k8sVars, deployVars,
  setupVars, mainVars, findVars, invVars, refsVars, syncVars, versionVars, refVars,
  internalVars, batchVars>>

\* What each subsystem leaves alone.
nonWaitVars == <<tcVars, patchVars, buildVars, k8sVars, deployVars, setupVars, mainVars,
  findVars, invVars, refsVars, syncVars, versionVars, refVars, internalVars, batchVars>>
nonTcVars == <<clusterVars, waitVars, patchVars, buildVars, k8sVars, deployVars, setupVars,
  mainVars, findVars, invVars, refsVars, syncVars, versionVars, refVars, internalVars,
  batchVars>>
nonPatchVars == <<clusterVars, waitVars, tcVars, buildVars, k8sVars, deployVars, setupVars,
  mainVars, findVars, invVars, refsVars, syncVars, refVars, internalVars, batchVars>>
nonBuildVars == <<clusterVars, waitVars, tcVars, patchVars, k8sVars, deployVars, setupVars,
  mainVars, findVars, invVars, refsVars, syncVars, versionVars, refVars, internalVars,
  batchVars>>
nonDeployVars == <<clusterVars, waitVars, tcVars, patchVars, buildVars, setupVars, mainVars,
  findVars, invVars, refsVars, syncVars, versionVars, refVars, internalVars, batchVars>>
nonSetupVars == <<clusterVars, waitVars, patchVars, buildVars, deployVars, mainVars,
  findVars, invVars, refsVars, syncVars, versionVars, refVars, internalVars, batchVars>>
nonMainVars == <<clusterVars, waitVars, tcVars, patchVars, buildVars, k8sVars, deployVars,
  setupVars, findVars, invVars, refsVars, syncVars, versionVars, refVars, internalVars,
  batchVars>>
nonFindVars == <<clusterVars, waitVars, tcVars, patchVars, buildVars, k8sVars, deployVars,
  setupVars, mainVars, invVars, refsVars, syncVars, versionVars, refVars, internalVars,
  batchVars>>
nonInvVars == <<clusterVars, waitVars, tcVars, patchVars, buildVars, k8sVars, deployVars,
  setupVars, mainVars, findVars, refsVars, syncVars, versionVars, refVars, internalVars,
  batchVars>>
nonRefsVars == <<clusterVars, waitVars, tcVars, patchVars, buildVars, k8sVars, deployVars,
  setupVars, mainVars, findVars, invVars, syncVars, versionVars, refVars, internalVars,
  batchVars>>
nonSyncVars == <<clusterVars, waitVars, tcVars, patchVars, buildVars, k8sVars, deployVars,
  setupVars, mainVars, findVars, invVars, refsVars, versionVars, refVars, internalVars,
  batchVars>>
nonRefVars == <<clusterVars, waitVars, tcVars, patchVars, buildVars, k8sVars, deployVars,
  setupVars, mainVars, findVars, invVars, refsVars, syncVars, versionVars, internalVars,
  batchVars>>
nonInternalVars == <<clusterVars, waitVars, tcVars, patchVars, buildVars, k8sVars,
  deployVars, setupVars, mainVars, findVars, invVars, refsVars, syncVars, versionVars,
  refVars, batchVars>>
nonBatchVars == <<clusterVars, waitVars, tcVars, patchVars, buildVars, k8sVars, deployVars,
  setupVars, mainVars, findVars, invVars, refsVars, syncVars, versionVars, refVars,
  internalVars>>

\* ------------------------------------------------------------------ helpers

Min(a, b) == IF a <= b THEN a ELSE b

Range(s) == {s[i] : i \in DOMAIN s}

\* Rust str::contains on strings modelled as sequences of characters:
\* `needle` occurs in `hay` as a contiguous substring (the empty needle always does).
Contains(hay, needle) ==
  \E i \in 1..(Len(hay) + 1) :
     /\ i + Len(needle) - 1 <= Len(hay)
     /\ SubSeq(hay, i, i + Len(needle) - 1) = needle

\* ------------------------------------------------------------------ bounds

\* Seconds one round trip to the cluster API is taken to last.
ApiSecs == 1

\* Most container images running in the Tekton namespaces at one time.
MaxPodImages == 2

\* Most installer sets the operator holds.
MaxSets == 3

\* ------------------------------------------------- wait.rs: program constants

\* let max_retries: u32 = 20;
max_retries == 20
\* let mut delay_secs: u64 = 10;
initial_delay_secs == 10
\* let cap_secs: u64 = 30;
cap_secs == 30

TEKTON_NAMESPACES == {"openshift-pipelines", "tekton-pipelines"}

\* ------------------------------------------------- wait.rs: input domains

\* Image references, as character sequences: a registry-qualified reference
\* <<1, 2>>, its unqualified suffix <<2>> and an unrelated image <<3>>.
ImageRefs == {<<1, 2>>, <<2>>, <<3>>}

\* Argument lists of wait_for_reconciliation (pairs of env key and image ref).
ExpectedChoices ==
  { <<>>,
    << <<"IMAGE_A", <<1, 2>> >> >>,
    << <<"IMAGE_A", <<2>> >>, <<"IMAGE_B", <<3>> >> >>,
    << <<"IMAGE_A", <<1, 2>> >>, <<"IMAGE_B", <<3>> >> >> }

\* status.conditions of the TektonConfig, as the cluster may report them.
ConditionLists ==
  { <<>>,
    << [type |-> "Ready", status |-> "True"] >>,
    << [type |-> "PreInstall", status |-> "True"], [type |-> "Ready", status |-> "Unknown"] >>,
    << [type |-> "PreInstall", status |-> "True"], [type |-> "Ready", status |-> "True"] >> }

PodStates ==
  { p \in [TEKTON_NAMESPACES -> SUBSET ImageRefs] :
      Cardinality(p["openshift-pipelines"]) + Cardinality(p["tekton-pipelines"]) <= MaxPodImages }

\* ------------------------------------------------- wait.rs: pure functions

\* check_tektonconfig_ready, the scan of status.conditions.
HasReadyTrue(conds) ==
  \E i \in DOMAIN conds : conds[i].type = "Ready" /\ conds[i].status = "True"

\* verify_pod_images: found_images collected over the namespaces whose pod
\* listing succeeded (a failed listing counts as no pods).
FoundImages(pods, listed) == UNION {pods[ns] : ns \in listed}

\* verify_pod_images: an expected ref is matched by substring in either direction.
Matched(found, image_ref) ==
  \E img \in found : Contains(img, image_ref) \/ Contains(image_ref, img)

\* verify_pod_images: all_found.
VerifyPodImages(expected, found) ==
  \A i \in DOMAIN expected : Matched(found, expected[i][2])

\* Bug variant: convergence declared on readiness alone.
Converged_ReadyOnly(ready, ok) == ready

\* The test of line 47: both gating conditions of this poll.
Converged(ready, ok) == ready /\ ok

\* Bug variant: the loop runs one attempt too many.
InLoopRange_OffByOne(a) == a <= max_retries + 1

\* Bug variant: the loop has no last attempt.
InLoopRange_Forever(a) == TRUE

\* for attempt in 1..=max_retries: `a` is an attempt of the loop.
InLoopRange(a) == a <= max_retries

\* Bug variant: a sleep follows every unsuccessful attempt, the last included.
SleepsAfter_Always(a) == TRUE

\* if attempt < max_retries { sleep ... }: attempt `a` is followed by a sleep.
SleepsAfter(a) == a < max_retries

\* Bug variant: doubling without the cap.
NextDelay_Uncapped(d) == d * 2

\* delay_secs = (delay_secs * 2).min(cap_secs); delay_secs never exceeds
\* cap_secs, so the u64 product cannot wrap.
NextDelay(d) == Min(d * 2, cap_secs)

\* Lines 63-69: the failure message, as the lines it is made of.  The line on
\* readiness is pushed only when the probe of line 62 did not see Ready=True;
\* the line on images is always the same text, into which no image reference
\* is interpolated.
FailureMessage(ready) ==
  [ not_ready_line |-> ~ready,
    images_line    |-> "Some pod images may not match expected upstream images",
    named_images   |-> {} ]

\* Seconds slept by the first n sleeps of a schedule that starts at delay d.
RECURSIVE ScheduleSum(_, _)
ScheduleSum(d, n) == IF n = 0 THEN 0 ELSE d + ScheduleSum(Min(d * 2, cap_secs), n - 1)

\* The longest time the loop can spend sleeping: max_retries - 1 sleeps.
TotalBackoff == ScheduleSum(initial_delay_secs, max_retries - 1)

RECURSIVE SumSeq(_)
SumSeq(q) == IF q = <<>> THEN 0 ELSE q[1] + SumSeq(Tail(q))

\* ------------------------------------------------- wait.rs: state machine

\* wait_for_reconciliation is not running.
WaitIdle ==
  /\ tc_conditions = <<>>
  /\ pod_images = [ns \in TEKTON_NAMESPACES |-> {}]
  /\ expected_images = <<>>
  /\ w_pc = "idle"
  /\ attempt = 0
  /\ delay_secs = 0
  /\ config_ready = FALSE
  /\ images_ok = FALSE
  /\ w_result = "none"
  /\ w_trace = <<>>
  /\ w_delays = <<>>
  /\ w_probes = 0
  /\ g_ready = <<0, FALSE>>
  /\ g_images = <<0, FALSE>>

\* ensure_tektonconfig is not running.
TcIdle ==
  /\ crd_served = TRUE
  /\ tc_exists = TRUE
  /\ t_pc = "idle"
  /\ t_attempt = 0
  /\ backoff = 0
  /\ t_result = "none"
  /\ t_delays = <<>>
  /\ t_errors = <<>>
  /\ t_creates = 0

\* A Deployment with no containers, standing for "not looked at".
NoDeployment == [containers |-> <<>>]

\* The mapping and patch steps are not running.
PatchIdle ==
  /\ live_dep = NoDeployment
  /\ cfg_images = <<>>
  /\ built_images = <<>>
  /\ mappings = <<>>
  /\ p_pc = "idle"
  /\ p_round = 0
  /\ p_dep = NoDeployment
  /\ p_result = "none"
  /\ p_read = NoDeployment
  /\ p_first = NoDeployment
  /\ p_writes = 0

\* run_multi is not running.
BuildIdle ==
  /\ specs = <<>>
  /\ fault = <<>>
  /\ dry_run = FALSE
  /\ image_override = FALSE
  /\ m_pc = "idle"
  /\ b_spawned = 0
  /\ task = <<>>
  /\ outcome = <<>>
  /\ joined = {}
  /\ results = <<>>
  /\ build_failed = FALSE
  /\ all_images = <<>>
  /\ exit_code = -1
  /\ jobs = <<>>

\* The cluster objects of a cluster that is fully set up.
K8sIdle ==
  /\ reg_mgmt = "Managed"
  /\ reg_route = "true"
  /\ reg_storage = "pvc"
  /\ route_exists = TRUE
  /\ ns_exists = TRUE
  /\ rb_exists = TRUE
  /\ sub_exists = TRUE
  /\ op_available = TRUE

\* run_deploy is not running.
DeployIdle ==
  /\ d_verbose = FALSE
  /\ d_pc = 0
  /\ d_steps = <<>>
  /\ d_failed = ""
  /\ d_wait = "none"
  /\ d_warned = FALSE
  /\ d_result = "none"
  /\ d_writes = 0
  /\ d_exit = -1
  /\ d_mutations = <<>>

\* run_auto_setup is not running.
SetupIdle ==
  /\ s_pc = "idle"
  /\ s_step = 0
  /\ s_ret = "none"
  /\ s_run = 0
  /\ s_first = <<>>
  /\ s_result = "none"
  /\ s_trace = <<>>
  /\ s_outcomes = <<>>
  /\ warnings = <<>>
  /\ s_patch = {}
  /\ s_writes = <<>>
  /\ s_read_failed = FALSE
  /\ s_clock = 0
  /\ s_prev = 0
  /\ s_probes = 0
  /\ s_seen = FALSE

\* No command is running.
MainIdle ==
  /\ a_cmd = "none"
  /\ a_flags = [no_auto_setup |-> FALSE, skip_build |-> FALSE, incluster |-> FALSE,
                dry_run |-> FALSE, date_range |-> FALSE]
  /\ a_n = 0
  /\ a_pc = "idle"
  /\ a_i = 0
  /\ a_boot = "none"
  /\ a_boots = 0
  /\ a_events = <<>>
  /\ a_exit = -1
  /\ a_tasks = <<>>
  /\ a_log = <<>>

\* find_operator_deployment is not running.
FindIdle ==
  /\ f_answers = <<>>
  /\ f_pc = 0
  /\ f_probed = <<>>
  /\ f_result = "none"
  /\ f_found = 0

\* delete_installer_sets is not running.
InvIdle ==
  /\ i_component = <<>>
  /\ i_override = <<>>
  /\ i_items = <<>>
  /\ i_live = {}
  /\ i_pc = 0
  /\ deleted = 0
  /\ i_attempts = <<>>
  /\ i_failures = <<>>
  /\ i_result = "none"

\* No mapping is being built.
RefsIdle ==
  /\ r_images = <<>>
  /\ r_refs = <<>>
  /\ r_result = [state |-> "none", map |-> <<>>]
  /\ r_warned = {}
  /\ r_mappings = [state |-> "none", map |-> <<>>]

\* sync_docker_config is not running.
SyncIdle ==
  /\ y_src = [kind |-> "absent", has_auths |-> FALSE, auths |-> <<>>, other |-> FALSE]
  /\ y_dst = [kind |-> "absent", has_auths |-> FALSE, auths |-> <<>>, other |-> FALSE]
  /\ y_prior = [kind |-> "absent", has_auths |-> FALSE, auths |-> <<>>, other |-> FALSE]
  /\ y_pc = "idle"

\* Nothing has read or written the operator Deployment.
VersionIdle ==
  /\ live_rv = 1
  /\ p_rv = 0

\* resolve_git_ref is not running.
RefIdle ==
  /\ ref_in = <<>>
  /\ ref_out = <<>>
  /\ ref_again = <<>>
  /\ ref_pc = "idle"

\* to_internal_registry is not running.
InternalIdle ==
  /\ ir_in = <<>>
  /\ ir_out = <<>>
  /\ ir_again = <<>>
  /\ ir_pc = "idle"

\* No batch historical run is in progress.
BatchIdle ==
  /\ h_dates = 0
  /\ h_dry = FALSE
  /\ h_pc = "idle"
  /\ progress = [current |-> 0, total |-> 0, passed |-> 0, failed |-> 0, errors |-> 0]
  /\ h_codes = <<>>
  /\ h_exit = -1

WaitInit ==
  /\ BatchIdle
  /\ InternalIdle
  /\ RefIdle
  /\ VersionIdle
  /\ SyncIdle
  /\ RefsIdle
  /\ InvIdle
  /\ FindIdle
  /\ MainIdle
  /\ TcIdle
  /\ PatchIdle
  /\ BuildIdle
  /\ K8sIdle
  /\ DeployIdle
  /\ SetupIdle
  /\ tc_conditions \in ConditionLists
  /\ pod_images \in PodStates
  /\ expected_images \in ExpectedChoices
  /\ w_pc = "check_ready"
  /\ attempt = 1
  /\ delay_secs = initial_delay_secs
  /\ config_ready = FALSE
  /\ images_ok = FALSE
  /\ w_result = "none"
  /\ w_trace = <<>>
  /\ w_delays = <<>>
  /\ w_probes = 0
  /\ g_ready = <<0, FALSE>>
  /\ g_images = <<0, FALSE>>

\* The cluster moves on its own between any two steps of the waiter: the
\* operator rewrites the TektonConfig status, or a pod starts or stops.
ClusterChange ==
  /\ UNCHANGED nonWaitVars
  /\ w_pc # "done"
  /\ \/ /\ tc_conditions' \in ConditionLists \ {tc_conditions}
        /\ UNCHANGED pod_images
     \/ /\ \E ns \in TEKTON_NAMESPACES, img \in ImageRefs :
             pod_images' = [pod_images EXCEPT ![ns] =
                              IF img \in @ THEN @ \ {img} ELSE @ \cup {img}]
        /\ pod_images' \in PodStates
        /\ UNCHANGED tc_conditions
  /\ UNCHANGED waitVars

\* Line 37: check_tektonconfig_ready(...)?  An API error ends the wait.
CheckReady ==
  /\ UNCHANGED nonWaitVars
  /\ w_pc = "check_ready"
  /\ w_trace' = Append(w_trace, "poll")
  /\ w_probes' = w_probes + 1
  /\ \E api_ok \in BOOLEAN :
       IF api_ok
         THEN /\ config_ready' = HasReadyTrue(tc_conditions)
              /\ g_ready' = <<attempt, HasReadyTrue(tc_conditions)>>
              /\ IF HasReadyTrue(tc_conditions)
                   THEN w_pc' = "verify_images" /\ UNCHANGED images_ok
                   ELSE w_pc' = "decide" /\ images_ok' = FALSE
              /\ UNCHANGED w_result
         ELSE /\ w_result' = "err_api"
              /\ w_pc' = "done"
              /\ UNCHANGED <<config_ready, images_ok, g_ready>>
  /\ UNCHANGED <<clusterVars, expected_images, attempt, delay_secs, w_delays, g_images>>

\* Line 39: verify_pod_images(...), only when config_ready.
VerifyImages ==
  /\ UNCHANGED nonWaitVars
  /\ w_pc = "verify_images"
  /\ \E listed \in SUBSET TEKTON_NAMESPACES :
       images_ok' = VerifyPodImages(expected_images, FoundImages(pod_images, listed))
  /\ g_images' = <<attempt,
                   \A i \in DOMAIN expected_images :
                     \E ns \in TEKTON_NAMESPACES : \E img \in pod_images[ns] :
                        \/ Contains(img, expected_images[i][2])
                        \/ Contains(expected_images[i][2], img)>>
  /\ w_pc' = "decide"
  /\ UNCHANGED <<clusterVars, expected_images, attempt, delay_secs, config_ready,
                 w_result, w_trace, w_delays, w_probes, g_ready>>

\* Lines 47-51: return Ok(()) when both hold.
ReturnConverged ==
  /\ UNCHANGED nonWaitVars
  /\ w_pc = "decide"
  /\ Converged(config_ready, images_ok)
  /\ w_result' = "ok"
  /\ w_pc' = "done"
  /\ UNCHANGED <<clusterVars, expected_images, attempt, delay_secs, config_ready,
                 images_ok, w_trace, w_delays, w_probes, g_ready, g_images>>

\* Lines 53-56: not converged and attempt < max_retries: sleep, double the delay.
Sleep ==
  /\ UNCHANGED nonWaitVars
  /\ w_pc = "decide"
  /\ ~Converged(config_ready, images_ok)
  /\ SleepsAfter(attempt)
  /\ w_trace' = Append(w_trace, "sleep")
  /\ w_delays' = Append(w_delays, delay_secs)
  /\ delay_secs' = NextDelay(delay_secs)
  /\ w_pc' = "loop_next"
  /\ UNCHANGED <<clusterVars, expected_images, attempt, config_ready, images_ok,
                 w_result, w_probes, g_ready, g_images>>

\* Line 53, condition false: the last attempt is not followed by a sleep.
NoSleep ==
  /\ UNCHANGED nonWaitVars
  /\ w_pc = "decide"
  /\ ~Converged(config_ready, images_ok)
  /\ ~SleepsAfter(attempt)
  /\ w_pc' = "loop_next"
  /\ UNCHANGED <<clusterVars, expected_images, attempt, delay_secs, config_ready,
                 images_ok, w_result, w_trace, w_delays, w_probes, g_ready, g_images>>

\* Line 27: the for loop advances to the next attempt.
NextAttempt ==
  /\ UNCHANGED nonWaitVars
  /\ w_pc = "loop_next"
  /\ InLoopRange(attempt + 1)
  /\ attempt' = attempt + 1
  /\ w_pc' = "check_ready"
  /\ UNCHANGED <<clusterVars, expected_images, delay_secs, config_ready, images_ok,
                 w_result, w_trace, w_delays, w_probes, g_ready, g_images>>

\* Line 57: the range is exhausted, the loop ends.
LoopExhausted ==
  /\ UNCHANGED nonWaitVars
  /\ w_pc = "loop_next"
  /\ ~InLoopRange(attempt + 1)
  /\ w_pc' = "final_probe"
  /\ UNCHANGED <<clusterVars, expected_images, attempt, delay_secs, config_ready,
                 images_ok, w_result, w_trace, w_delays, w_probes, g_ready, g_images>>

\* Lines 59-71: readiness is probed once more for the failure message, then bail!.
FinalProbe ==
  /\ UNCHANGED nonWaitVars
  /\ w_pc = "final_probe"
  /\ w_trace' = Append(w_trace, "final_probe")
  /\ w_probes' = w_probes + 1
  /\ \E api_ok \in BOOLEAN :
       config_ready' = (api_ok /\ HasReadyTrue(tc_conditions))
  /\ w_result' = "err_exhausted"
  /\ w_pc' = "done"
  /\ UNCHANGED <<clusterVars, expected_images, attempt, delay_secs, images_ok,
                 w_delays, g_ready, g_images>>

WaitNext ==
  \/ ClusterChange
  \/ CheckReady
  \/ VerifyImages
  \/ ReturnConverged
  \/ Sleep
  \/ NoSleep
  \/ NextAttempt
  \/ LoopExhausted
  \/ FinalProbe

SpecWait == WaitInit /\ [][WaitNext]_vars

\* ------------------------------------------------- wait.rs: properties

Polls == {i \in DOMAIN w_trace : w_trace[i] = "poll"}

\* C6: wait_for_reconciliation returns success only if, in the poll that
\* returned, the TektonConfig was observed Ready=True and no expected image
\* was missing from the pods; both observations belong to that same poll.
C6_ConvergedInOnePoll ==
  w_result = "ok" => /\ g_ready = <<attempt, TRUE>>
                     /\ g_images = <<attempt, TRUE>>

\* C6 witness: success in a later poll, after a poll that saw Ready=True
\* with an expected image missing.
C6_Witness ==
  /\ w_result = "ok"
  /\ attempt >= 2
  /\ Len(expected_images) = 2

Elapsed == SumSeq(w_delays) + w_probes * ApiSecs

C14_ApiErrorRetried == w_result \in {"none", "ok", "err_exhausted"}

\* The expected image references that no pod runs.
MissingImages ==
  { expected_images[i][2] : i \in { j \in DOMAIN expected_images :
        ~Matched(FoundImages(pod_images, TEKTON_NAMESPACES), expected_images[j][2]) } }

\* C15 as stated: on exhaustion the failure says that readiness is not met
\* exactly when the last poll failed on readiness, and it names the expected
\* image references that are still missing from the pods.
C15_FailureNamesUnconverged ==
  w_result = "err_exhausted" =>
    /\ FailureMessage(config_ready).not_ready_line <=> (g_ready = <<max_retries, FALSE>>)
    /\ FailureMessage(config_ready).named_images = MissingImages

\* ================================================= setup.rs: ensure_tektonconfig

\* let max_retries = 6;
tc_max_retries == 6
\* let mut backoff = std::time::Duration::from_secs(5);
tc_initial_backoff == 5

\* Bug variant: the waiter's capped doubling.
TcNextBackoff_Capped(d) == Min(d * 2, cap_secs)

\* backoff *= 2;
TcNextBackoff(d) == d * 2

\* Err(e) if attempt < max_retries: the failed create is retried.
TcRetries(a) == a < tc_max_retries

\* What api.get("config") answers: Ok only for an existing resource of a served kind.
TcGetOk(served, exists, api_ok) == served /\ exists /\ api_ok

\* What api.create answers: Ok only if the kind is served, no "config" exists
\* yet and the call itself goes through.
TcCreateAnswer(served, exists, api_ok) ==
  IF ~served THEN "NotFound"
  ELSE IF exists THEN "AlreadyExists"
  ELSE IF ~api_ok THEN "ApiError"
  ELSE "Ok"

TcInit ==
  /\ BatchIdle
  /\ InternalIdle
  /\ RefIdle
  /\ VersionIdle
  /\ SyncIdle
  /\ RefsIdle
  /\ InvIdle
  /\ FindIdle
  /\ MainIdle
  /\ WaitIdle
  /\ PatchIdle
  /\ BuildIdle
  /\ K8sIdle
  /\ DeployIdle
  /\ SetupIdle
  /\ crd_served \in BOOLEAN
  /\ tc_exists \in BOOLEAN
  /\ tc_exists => crd_served
  /\ t_pc = "check_exists"
  /\ t_attempt = 0
  /\ backoff = 0
  /\ t_result = "none"
  /\ t_delays = <<>>
  /\ t_errors = <<>>
  /\ t_creates = 0

\* The operator finishes registering the CRD while the bootstrap runs.
CrdRegistered ==
  /\ t_pc \notin {"idle", "done"}
  /\ ~crd_served
  /\ crd_served' = TRUE
  /\ UNCHANGED <<tc_exists, t_pc, t_attempt, backoff, t_result, t_delays, t_errors, t_creates>>
  /\ UNCHANGED nonTcVars

\* Another actor (the operator itself) creates TektonConfig "config".
OtherActorCreates ==
  /\ t_pc \notin {"idle", "done"}
  /\ crd_served /\ ~tc_exists
  /\ tc_exists' = TRUE
  /\ UNCHANGED <<crd_served, t_pc, t_attempt, backoff, t_result, t_delays, t_errors, t_creates>>
  /\ UNCHANGED nonTcVars

\* Lines 350-354 and 368-370: return Ok if "config" can be read; otherwise
\* set up the retry loop.
TcCheckExists ==
  /\ t_pc = "check_exists"
  /\ \E api_ok \in BOOLEAN :
       IF TcGetOk(crd_served, tc_exists, api_ok)
         THEN /\ t_result' = "ok"
              /\ t_pc' = "done"
              /\ UNCHANGED <<t_attempt, backoff>>
         ELSE /\ t_pc' = "create"
              /\ t_attempt' = 1
              /\ backoff' = tc_initial_backoff
              /\ UNCHANGED t_result
  /\ UNCHANGED <<crd_served, tc_exists, t_delays, t_errors, t_creates>>
  /\ UNCHANGED nonTcVars

\* Lines 373-377: the create succeeds.
TcCreateSucceeds ==
  /\ t_pc = "create"
  /\ \E api_ok \in BOOLEAN : TcCreateAnswer(crd_served, tc_exists, api_ok) = "Ok"
  /\ t_creates' = t_creates + 1
  /\ tc_exists' = TRUE
  /\ t_result' = "ok"
  /\ t_pc' = "done"
  /\ UNCHANGED <<crd_served, t_attempt, backoff, t_delays, t_errors>>
  /\ UNCHANGED nonTcVars

\* Lines 378-382: the create fails before the last attempt: the error is printed.
TcCreateFailsRetry ==
  /\ t_pc = "create"
  /\ TcRetries(t_attempt)
  /\ \E api_ok \in BOOLEAN :
       /\ TcCreateAnswer(crd_served, tc_exists, api_ok) # "Ok"
       /\ t_errors' = Append(t_errors, TcCreateAnswer(crd_served, tc_exists, api_ok))
  /\ t_creates' = t_creates + 1
  /\ t_pc' = "sleep"
  /\ UNCHANGED <<crd_served, tc_exists, t_attempt, backoff, t_result, t_delays>>
  /\ UNCHANGED nonTcVars

\* Lines 383-384 and 372: sleep, double the backoff, next attempt.
TcSleep ==
  /\ t_pc = "sleep"
  /\ t_delays' = Append(t_delays, backoff)
  /\ backoff' = TcNextBackoff(backoff)
  /\ t_attempt' = t_attempt + 1
  /\ t_pc' = "create"
  /\ UNCHANGED <<crd_served, tc_exists, t_result, t_errors, t_creates>>
  /\ UNCHANGED nonTcVars

\* Lines 386-388: the create fails at the last attempt: return the error.
TcCreateFailsLast ==
  /\ t_pc = "create"
  /\ ~TcRetries(t_attempt)
  /\ \E api_ok \in BOOLEAN :
       /\ TcCreateAnswer(crd_served, tc_exists, api_ok) # "Ok"
       /\ t_errors' = Append(t_errors, TcCreateAnswer(crd_served, tc_exists, api_ok))
  /\ t_creates' = t_creates + 1
  /\ t_result' = "err"
  /\ t_pc' = "done"
  /\ UNCHANGED <<crd_served, tc_exists, t_attempt, backoff, t_delays>>
  /\ UNCHANGED nonTcVars

TcNext ==
  \/ CrdRegistered
  \/ OtherActorCreates
  \/ TcCheckExists
  \/ TcCreateSucceeds
  \/ TcCreateFailsRetry
  \/ TcSleep
  \/ TcCreateFailsLast

SpecTc == TcInit /\ [][TcNext]_vars

\* ------------------------------------------------- ensure_tektonconfig: properties

MaxBuilt == 2
\* Most environment variables of the lifecycle container before the patch.
MaxEnv == 2

LIFECYCLE == "openshift-pipelines-operator-lifecycle"

\* Option::None of an EnvVar's value or value_from.
None == "<none>"

ImageNames == {"controller", "webhook"}
EnvKeys == {"IMAGE_A", "IMAGE_B"}

\* format!("{registry}/{image_name}") for the registry of the run.
FullRef(image_name) ==
  CASE image_name = "controller" -> "reg/controller"
    [] image_name = "webhook" -> "reg/webhook"

\* Environment variables a Deployment may carry before the patch: a plain
\* value or a value_from reference, under a mapped or an unrelated name.
EnvVars ==
  [name : {"IMAGE_A", "KEEP"}, value : {"old"}, value_from : {None}]
    \cup [name : {"IMAGE_A", "KEEP"}, value : {None}, value_from : {"configmap-ref"}]

SeqsUpTo(S, n) == UNION {[1..k -> S] : k \in 0..n}

\* A container: env is Option<Vec<EnvVar>>; has_env = FALSE is None.
LifecycleContainers ==
  {[name |-> LIFECYCLE, has_env |-> TRUE, env |-> e] : e \in SeqsUpTo(EnvVars, MaxEnv)}
    \cup {[name |-> LIFECYCLE, has_env |-> FALSE, env |-> <<>>]}

Sidecar ==
  [name |-> "kube-rbac-proxy", has_env |-> TRUE,
   env |-> <<[name |-> "IMAGE_A", value |-> "old", value_from |-> None]>>]

Deployments ==
  {[containers |-> <<Sidecar>>]}
    \cup {[containers |-> <<c>>] : c \in LifecycleContainers}
    \cup {[containers |-> <<Sidecar, c>>] : c \in LifecycleContainers}
    \cup {[containers |-> <<c, Sidecar>>] : c \in LifecycleContainers}

\* comp.images: a map from some of the image names to env keys.
ImageConfigs == UNION {[d -> EnvKeys] : d \in SUBSET ImageNames}

\* ------------------------------------------------- mapping.rs

\* build_image_mappings, lines 22-29 and 35-37: the call fails if a built
\* image has no key in the map, or if nothing was mapped.
MappingFails(images, built) ==
  \/ \E i \in DOMAIN built : built[i] \notin DOMAIN images
  \/ built = <<>>

\* build_image_mappings, lines 20-33: the list of <<env key, full ref>>.
BuildImageMappings(images, built) ==
  [i \in DOMAIN built |-> <<images[built[i]], FullRef(built[i])>>]

\* ------------------------------------------------- operator.rs

\* Bug variant: without a lifecycle container the first container is patched.
ContainerIndex_FallBackToFirst(containers) ==
  IF \E i \in DOMAIN containers : containers[i].name = LIFECYCLE
    THEN CHOOSE i \in DOMAIN containers :
           /\ containers[i].name = LIFECYCLE
           /\ \A j \in 1..(i - 1) : containers[j].name # LIFECYCLE
    ELSE IF containers = <<>> THEN 0 ELSE 1

\* containers.iter().position(|c| c.name == LIFECYCLE); 0 for None.
ContainerIndex(containers) ==
  IF \E i \in DOMAIN containers : containers[i].name = LIFECYCLE
    THEN CHOOSE i \in DOMAIN containers :
           /\ containers[i].name = LIFECYCLE
           /\ \A j \in 1..(i - 1) : containers[j].name # LIFECYCLE
    ELSE 0

\* mappings.iter().find(|(k, _)| k == &env.name): index of the first entry
\* with that key; 0 for None.
FindMapping(maps, name) ==
  IF \E j \in DOMAIN maps : maps[j][1] = name
    THEN CHOOSE j \in DOMAIN maps :
           /\ maps[j][1] = name
           /\ \A k \in 1..(j - 1) : maps[k][1] # name
    ELSE 0

\* Lines 142-151: update the matching variables in place.
UpdateExisting(existing, maps) ==
  [i \in DOMAIN existing |->
     IF FindMapping(maps, existing[i].name) # 0
       THEN [name |-> existing[i].name,
             value |-> maps[FindMapping(maps, existing[i].name)][2],
             value_from |-> None]
       ELSE existing[i]]

\* Lines 154-163: the entries to push: those whose key is not among the
\* names collected before the pushes.
RECURSIVE AppendNew(_, _, _)
AppendNew(existing_names, maps, j) ==
  IF j > Len(maps) THEN <<>>
  ELSE (IF maps[j][1] \notin existing_names
          THEN <<[name |-> maps[j][1], value |-> maps[j][2], value_from |-> None]>>
          ELSE <<>>)
       \o AppendNew(existing_names, maps, j + 1)

\* Bug variant: the environment is rebuilt from the mapping alone.
MergeEnv_MappingOnly(existing, maps) == AppendNew({}, maps, 1)

\* Lines 139-165: the merged env list of the lifecycle container.
MergeEnv(existing, maps) ==
  UpdateExisting(existing, maps)
    \o AppendNew({existing[i].name : i \in DOMAIN existing}, maps, 1)

\* Lines 136-165 on the whole Deployment: env.take().unwrap_or_default(),
\* merge, env = Some(new_envs), in the container at container_index.
PatchContainers(containers, maps) ==
  [i \in DOMAIN containers |->
     IF i = ContainerIndex(containers)
       THEN [name |-> containers[i].name, has_env |-> TRUE,
             env |-> MergeEnv(containers[i].env, maps)]
       ELSE containers[i]]

\* ------------------------------------------------- the mapping and patch steps

PatchInit ==
  /\ BatchIdle
  /\ InternalIdle
  /\ RefIdle
  /\ VersionIdle
  /\ SyncIdle
  /\ RefsIdle
  /\ InvIdle
  /\ FindIdle
  /\ MainIdle
  /\ WaitIdle
  /\ TcIdle
  /\ BuildIdle
  /\ K8sIdle
  /\ DeployIdle
  /\ SetupIdle
  /\ live_dep \in Deployments
  /\ cfg_images \in ImageConfigs
  /\ built_images \in SeqsUpTo(ImageNames, MaxBuilt)
  /\ mappings = <<>>
  /\ p_pc = "map"
  /\ p_round = 1
  /\ p_dep = NoDeployment
  /\ p_result = "none"
  /\ p_read = NoDeployment
  /\ p_first = NoDeployment
  /\ p_writes = 0

\* deploy/mod.rs line 58: build_image_mappings(...)?
MapImages ==
  /\ p_pc = "map"
  /\ IF MappingFails(cfg_images, built_images)
       THEN /\ p_result' = "err_mapping"
            /\ p_pc' = "done"
            /\ UNCHANGED mappings
       ELSE /\ mappings' = BuildImageMappings(cfg_images, built_images)
            /\ p_pc' = "get"
            /\ UNCHANGED p_result
  /\ UNCHANGED <<live_dep, cfg_images, built_images, p_round, p_dep, p_read, p_first,
                 p_writes, versionVars>>
  /\ UNCHANGED nonPatchVars

\* operator.rs lines 116-121: read the live Deployment.
PatchGet ==
  /\ p_pc = "get"
  /\ \E api_ok \in BOOLEAN :
       IF api_ok
         THEN /\ p_dep' = live_dep
              /\ p_rv' = live_rv
              /\ p_read' = live_dep
              /\ p_pc' = "merge"
              /\ UNCHANGED p_result
         ELSE /\ p_result' = "err_get"
              /\ p_pc' = "done"
              /\ UNCHANGED <<p_dep, p_rv, p_read>>
  /\ UNCHANGED <<live_dep, live_rv, cfg_images, built_images, mappings, p_round, p_first,
                 p_writes>>
  /\ UNCHANGED nonPatchVars

\* operator.rs lines 123-165: find the lifecycle container, merge the env.
PatchMerge ==
  /\ p_pc = "merge"
  /\ IF ContainerIndex(p_dep.containers) = 0
       THEN /\ p_result' = "err_no_container"
            /\ p_pc' = "done"
            /\ UNCHANGED p_dep
       ELSE /\ p_dep' = [containers |-> PatchContainers(p_dep.containers, mappings)]
            /\ p_pc' = "replace"
            /\ UNCHANGED p_result
  /\ UNCHANGED <<live_dep, cfg_images, built_images, mappings, p_round, p_read, p_first,
                 p_writes, versionVars>>
  /\ UNCHANGED nonPatchVars

\* Bug variant: the replace is accepted whatever version the object carries.
Accepted_AnyVersion(sent_rv, stored_rv) == TRUE

\* operator.rs lines 119 and 175: the object handed to api.replace is the one
\* api.get returned, metadata included, so it carries the resourceVersion of
\* the read; the API server accepts a replace only if that version is still
\* the stored one and answers 409 Conflict otherwise.
Accepted(sent_rv, stored_rv) == sent_rv = stored_rv

\* operator.rs lines 170-179: replace the Deployment with the merged one.
PatchReplace ==
  /\ p_pc = "replace"
  /\ p_writes' = p_writes + 1
  /\ \E api_ok \in BOOLEAN :
       IF api_ok /\ Accepted(p_rv, live_rv)
         THEN /\ live_dep' = p_dep
              /\ live_rv' = live_rv + 1
              /\ p_result' = "ok"
         ELSE /\ p_result' = "err_replace"
              /\ UNCHANGED <<live_dep, live_rv>>
  /\ p_pc' = "done"
  /\ UNCHANGED <<cfg_images, built_images, mappings, p_round, p_dep, p_rv, p_read, p_first>>
  /\ UNCHANGED nonPatchVars

\* The same mapping is applied a second time, right after the first.
PatchAgain ==
  /\ p_pc = "done"
  /\ p_result = "ok"
  /\ p_round = 1
  /\ p_round' = 2
  /\ p_first' = live_dep
  /\ p_result' = "none"
  /\ p_pc' = "get"
  /\ UNCHANGED <<live_dep, cfg_images, built_images, mappings, p_dep, p_read, p_writes,
                 versionVars>>
  /\ UNCHANGED nonPatchVars

PatchNext ==
  \/ MapImages
  \/ PatchGet
  \/ PatchMerge
  \/ PatchReplace
  \/ PatchAgain

SpecPatch == PatchInit /\ [][PatchNext]_vars

\* ------------------------------------------------- patch: properties

\* The lifecycle container of a Deployment that has one.
LifecycleOf(dep) ==
  dep.containers[CHOOSE i \in DOMAIN dep.containers :
                   /\ dep.containers[i].name = LIFECYCLE
                   /\ \A j \in 1..(i - 1) : dep.containers[j].name # LIFECYCLE]

MappingKeys == {mappings[j][1] : j \in DOMAIN mappings}

Occurrences(env, name) == Cardinality({i \in DOMAIN env : env[i].name = name})

PatchApplied == p_pc = "done" /\ p_result = "ok"

\* C3: applying the same mapping twice in succession leaves the Deployment
\* as the first application left it, and no application makes an
\* environment-variable name occur more often than once.
C3_PatchIdempotent ==
  /\ (PatchApplied /\ p_round = 2) => live_dep = p_first
  /\ PatchApplied =>
       \A k \in MappingKeys :
         Occurrences(LifecycleOf(live_dep).env, k)
           <= IF Occurrences(LifecycleOf(p_read).env, k) > 1
                THEN Occurrences(LifecycleOf(p_read).env, k) ELSE 1

\* C3 restricted to mappings without a repeated key, where the code is idempotent.
C3_IdempotentOnDistinctKeys ==
  Cardinality(MappingKeys) = Len(mappings) => C3_PatchIdempotent

\* C4: after the patch every variable of the lifecycle container whose name
\* is not a key of the mapping is still there, with the same value, the same
\* value_from and at the same place; the other containers are unchanged.
C4_PatchNonDestructive ==
  PatchApplied =>
    LET before == p_read.containers
        after == live_dep.containers
        old == LifecycleOf(p_read)
        new == LifecycleOf(live_dep)
        Unmapped(e) == e.name \notin MappingKeys
    IN /\ Len(after) = Len(before)
       /\ \A i \in DOMAIN before :
            \/ after[i] = before[i]
            \/ /\ before[i] = old
               /\ after[i] = new
       /\ Cardinality({i \in DOMAIN before : after[i] # before[i]}) <= 1
       /\ new.name = old.name
       /\ Len(new.env) >= Len(old.env)
       /\ \A i \in DOMAIN old.env : Unmapped(old.env[i]) => new.env[i] = old.env[i]
       /\ SelectSeq(new.env, Unmapped) = SelectSeq(old.env, Unmapped)

\* C4 witness: a patched Deployment with a sidecar, whose lifecycle container
\* had an unmapped variable with a value_from after a mapped one.
C4_Witness ==
  /\ PatchApplied
  /\ Len(live_dep.containers) = 2
  /\ Len(LifecycleOf(p_read).env) = 2
  /\ LifecycleOf(p_read).env[1].name \in MappingKeys
  /\ LifecycleOf(p_read).env[2].name = "KEEP"
  /\ LifecycleOf(p_read).env[2].value_from # None
  /\ Len(LifecycleOf(live_dep).env) = 3

\* C5: after a successful patch every (key, value) of the mapping is the name
\* and value of a variable of the lifecycle container with no value_from;
\* matching variables are overwritten in place and the other keys appended.
C5_EveryEntryApplied ==
  PatchApplied =>
    LET old == LifecycleOf(p_read).env
        new == LifecycleOf(live_dep).env
    IN /\ \A j \in DOMAIN mappings :
            \E i \in DOMAIN new :
              new[i] = [name |-> mappings[j][1], value |-> mappings[j][2], value_from |-> None]
       /\ \A i \in DOMAIN old : new[i].name = old[i].name
       /\ \A i \in DOMAIN new : i > Len(old) => new[i].name \in MappingKeys

\* C5 restricted to mappings without a repeated key.
C5_AppliedOnDistinctKeys ==
  Cardinality(MappingKeys) = Len(mappings) => C5_EveryEntryApplied

\* ================================================= build.rs and main.rs: the parallel build

\* Most component specs of one run.
MaxSpecs == 2

\* config/components.toml as loaded: a ko component with two import paths
\* and a docker component with one image.  "chains" is a known component
\* name that the configuration does not define.
ConfigNames == {"pipeline", "console-plugin"}
SpecNames == ConfigNames \cup {"chains"}

ComponentConfig(name) ==
  CASE name = "pipeline" ->
         [build_system |-> "ko",
          import_paths |-> << <<".", "cmd", "controller">>, <<".", "cmd", "webhook">> >>,
          images |-> [n \in {"controller", "webhook"} |->
                        IF n = "controller" THEN "IMAGE_A" ELSE "IMAGE_B"]]
    [] name = "console-plugin" ->
         [build_system |-> "docker",
          import_paths |-> <<>>,
          images |-> [n \in {"console-plugin"} |-> "IMAGE_CONSOLE"]]

\* The stages at which a pipeline can be made to fail: tempfile::tempdir,
\* clone_with_ref, a panic of the blocking clone, the build, a panic of the
\* blocking build.
Faults == {"none", "tempdir", "clone", "clone_panic", "build", "build_panic"}

\* A task's return value (comp_name, Result<Vec<String>>).
Ok(name, images) == [name |-> name, ok |-> TRUE, images |-> images, error |-> ""]
Err(name, error) == [name |-> name, ok |-> FALSE, images |-> <<>>, error |-> error]
NoOutcome == Err("", "pending")

\* ko_build / docker_build, lines 148-265: the image names a successful build
\* returns: the last segment of every import path (ko), the keys of the
\* images map in the map's iteration order (docker).
BuildOutput(cfg) ==
  IF cfg.build_system = "docker"
    THEN CHOOSE q \in [1..Cardinality(DOMAIN cfg.images) -> DOMAIN cfg.images] :
           Range(q) = DOMAIN cfg.images
    ELSE [i \in DOMAIN cfg.import_paths |->
            cfg.import_paths[i][Len(cfg.import_paths[i])]]

\* Bug variant: a failure of any pipeline at a stage fails every pipeline there.
StageFails_AnyTask(i, stage) == \E k \in DOMAIN fault : fault[k] = stage

\* The pipeline of spec i fails at `stage`.
StageFails(i, stage) == fault[i] = stage

\* Bug variant: the join loop stops at the first outcome.
JoinSetEmpty_AfterFirst(done, n) == done # {}

\* set.join_next() returns None: every spawned task has been joined.
JoinSetEmpty(done, n) == done = 1..n

\* Bug variant: only the last outcome decides.
AnyFailed_LastOnly(res) == res # <<>> /\ ~res[Len(res)].ok

\* main.rs lines 819-832: build_failed after the loop over the results.
AnyFailed(res) == \E r \in DOMAIN res : ~res[r].ok

\* main.rs lines 818-826: all_images after the loop over the results.
RECURSIVE SuccessfulImages(_)
SuccessfulImages(res) ==
  IF res = <<>> THEN <<>>
  ELSE (IF res[1].ok THEN << <<res[1].name, res[1].images>> >> ELSE <<>>)
       \o SuccessfulImages(Tail(res))

BuildInit ==
  /\ BatchIdle
  /\ InternalIdle
  /\ RefIdle
  /\ VersionIdle
  /\ SyncIdle
  /\ RefsIdle
  /\ InvIdle
  /\ FindIdle
  /\ MainIdle
  /\ WaitIdle
  /\ TcIdle
  /\ PatchIdle
  /\ K8sIdle
  /\ DeployIdle
  /\ SetupIdle
  /\ specs \in UNION {[1..n -> SpecNames] : n \in 1..MaxSpecs}
  /\ fault \in [DOMAIN specs -> Faults]
  /\ \A i \in DOMAIN specs : specs[i] \notin ConfigNames => fault[i] = "none"
  /\ dry_run \in BOOLEAN
  /\ image_override \in BOOLEAN
  /\ m_pc = "load_config"
  /\ b_spawned = 0
  /\ task = <<>>
  /\ outcome = <<>>
  /\ joined = {}
  /\ results = <<>>
  /\ build_failed = FALSE
  /\ all_images = <<>>
  /\ exit_code = -1
  /\ jobs = <<>>

\* main.rs lines 738-744: load the configuration, or return 2.
LoadConfig ==
  /\ m_pc = "load_config"
  /\ \E loaded \in BOOLEAN :
       IF loaded
         THEN /\ m_pc' = IF dry_run THEN "dry_run"
                         ELSE IF image_override THEN "prebuilt" ELSE "registry"
              /\ UNCHANGED exit_code
         ELSE /\ m_pc' = "exit"
              /\ exit_code' = 2
  /\ UNCHANGED <<specs, fault, dry_run, image_override, b_spawned, task, outcome, joined,
                 results, build_failed, all_images, jobs>>
  /\ UNCHANGED nonBuildVars

\* main.rs lines 747-749: print the plan and return 0.
DryRunPlan ==
  /\ m_pc = "dry_run"
  /\ m_pc' = "exit"
  /\ exit_code' = 0
  /\ UNCHANGED <<specs, fault, dry_run, image_override, b_spawned, task, outcome, joined,
                 results, build_failed, all_images, jobs>>
  /\ UNCHANGED nonBuildVars

\* main.rs lines 752-789: a pre-built image: no build, the Job right away.
PrebuiltJob ==
  /\ m_pc = "prebuilt"
  /\ jobs' = Append(jobs, "prebuilt")
  /\ \E created \in BOOLEAN : exit_code' = IF created THEN 0 ELSE 2
  /\ m_pc' = "exit"
  /\ UNCHANGED <<specs, fault, dry_run, image_override, b_spawned, task, outcome, joined,
                 results, build_failed, all_images>>
  /\ UNCHANGED nonBuildVars

\* main.rs lines 792-812: registry route, namespace, login; any failure returns 2.
RegistrySetup ==
  /\ m_pc = "registry"
  /\ \E done \in BOOLEAN :
       IF done
         THEN m_pc' = "spawning" /\ UNCHANGED exit_code
         ELSE m_pc' = "exit" /\ exit_code' = 2
  /\ UNCHANGED <<specs, fault, dry_run, image_override, b_spawned, task, outcome, joined,
                 results, build_failed, all_images, jobs>>
  /\ UNCHANGED nonBuildVars

\* Bug variant: the full pipeline is spawned for every spec.
SpawnKind_AlwaysPipeline(name) == "queued"

\* build.rs lines 285-296: configs.get(&comp_name): the pipeline for a
\* configured name, a trivial task returning the error for any other.
SpawnKind(name) == IF name \in ConfigNames THEN "queued" ELSE "not_in_config"

\* build.rs lines 280-366: the spawn loop: one task per spec, a trivial one
\* for a name that is not in the configuration.
SpawnTask ==
  /\ m_pc = "spawning"
  /\ b_spawned < Len(specs)
  /\ b_spawned' = b_spawned + 1
  /\ task' = Append(task, SpawnKind(specs[b_spawned + 1]))
  /\ outcome' = Append(outcome, NoOutcome)
  /\ UNCHANGED <<specs, fault, dry_run, image_override, m_pc, joined, results,
                 build_failed, all_images, exit_code, jobs>>
  /\ UNCHANGED nonBuildVars

\* build.rs lines 366-368: the spawn loop is over.
SpawnDone ==
  /\ m_pc = "spawning"
  /\ b_spawned = Len(specs)
  /\ m_pc' = "joining"
  /\ UNCHANGED <<specs, fault, dry_run, image_override, b_spawned, task, outcome, joined,
                 results, build_failed, all_images, exit_code, jobs>>
  /\ UNCHANGED nonBuildVars

Finish(i, out) ==
  /\ task' = [task EXCEPT ![i] = "finished"]
  /\ outcome' = [outcome EXCEPT ![i] = out]

\* build.rs lines 291-293: the trivial task of a name that is not in the config.
TaskNotInConfig ==
  /\ \E i \in DOMAIN task :
       /\ task[i] = "not_in_config"
       /\ Finish(i, Err(specs[i], "component not in config"))
  /\ UNCHANGED <<specs, fault, dry_run, image_override, m_pc, b_spawned, joined, results,
                 build_failed, all_images, exit_code, jobs>>
  /\ UNCHANGED nonBuildVars

\* build.rs lines 305-322: create the workspace and start the clone.
TaskStart ==
  /\ \E i \in DOMAIN task :
       /\ task[i] = "queued"
       /\ IF StageFails(i, "tempdir")
            THEN Finish(i, Err(specs[i], "temp dir"))
            ELSE task' = [task EXCEPT ![i] = "cloning"] /\ UNCHANGED outcome
  /\ UNCHANGED <<specs, fault, dry_run, image_override, m_pc, b_spawned, joined, results,
                 build_failed, all_images, exit_code, jobs>>
  /\ UNCHANGED nonBuildVars

\* build.rs lines 324-349: the clone has ended; start the build.
TaskCloned ==
  /\ \E i \in DOMAIN task :
       /\ task[i] = "cloning"
       /\ IF StageFails(i, "clone")
            THEN Finish(i, Err(specs[i], "clone failed"))
            ELSE IF StageFails(i, "clone_panic")
              THEN Finish(i, Err(specs[i], "join error"))
              ELSE task' = [task EXCEPT ![i] = "building"] /\ UNCHANGED outcome
  /\ UNCHANGED <<specs, fault, dry_run, image_override, m_pc, b_spawned, joined, results,
                 build_failed, all_images, exit_code, jobs>>
  /\ UNCHANGED nonBuildVars

\* build.rs lines 351-364: the build has ended.
TaskBuilt ==
  /\ \E i \in DOMAIN task :
       /\ task[i] = "building"
       /\ IF StageFails(i, "build")
            THEN Finish(i, Err(specs[i], "build failed"))
            ELSE IF StageFails(i, "build_panic")
              THEN Finish(i, Err(specs[i], "join error"))
              ELSE Finish(i, Ok(specs[i], BuildOutput(ComponentConfig(specs[i]))))
  /\ UNCHANGED <<specs, fault, dry_run, image_override, m_pc, b_spawned, joined, results,
                 build_failed, all_images, exit_code, jobs>>
  /\ UNCHANGED nonBuildVars

\* build.rs lines 369-374: join_next hands out the outcome of a finished task.
\* (No step of a task body can panic, so the Err arm is never taken.)
JoinNext ==
  /\ m_pc = "joining"
  /\ ~JoinSetEmpty(joined, b_spawned)
  /\ \E i \in DOMAIN task \ joined :
       /\ task[i] = "finished"
       /\ joined' = joined \cup {i}
       /\ results' = Append(results, outcome[i])
  /\ UNCHANGED <<specs, fault, dry_run, image_override, m_pc, b_spawned, task, outcome,
                 build_failed, all_images, exit_code, jobs>>
  /\ UNCHANGED nonBuildVars

\* build.rs lines 369 and 376: join_next returns None; the results are returned.
ReturnResults ==
  /\ m_pc = "joining"
  /\ JoinSetEmpty(joined, b_spawned)
  /\ m_pc' = "collect"
  /\ UNCHANGED <<specs, fault, dry_run, image_override, b_spawned, task, outcome, joined,
                 results, build_failed, all_images, exit_code, jobs>>
  /\ UNCHANGED nonBuildVars

\* main.rs lines 818-832: go through the results.
CollectResults ==
  /\ m_pc = "collect"
  /\ build_failed' = AnyFailed(results)
  /\ all_images' = SuccessfulImages(results)
  /\ m_pc' = "decide"
  /\ UNCHANGED <<specs, fault, dry_run, image_override, b_spawned, task, outcome, joined,
                 results, exit_code, jobs>>
  /\ UNCHANGED nonBuildVars

\* main.rs lines 834-836: a build failed: return 2.
AbortOnBuildFailure ==
  /\ m_pc = "decide"
  /\ build_failed
  /\ m_pc' = "exit"
  /\ exit_code' = 2
  /\ UNCHANGED <<specs, fault, dry_run, image_override, b_spawned, task, outcome, joined,
                 results, build_failed, all_images, jobs>>
  /\ UNCHANGED nonBuildVars

\* main.rs lines 838-870: create the in-cluster Job for deploy and test.
DeployJob ==
  /\ m_pc = "decide"
  /\ ~build_failed
  /\ jobs' = Append(jobs, "built")
  /\ \E created \in BOOLEAN : exit_code' = IF created THEN 0 ELSE 2
  /\ m_pc' = "exit"
  /\ UNCHANGED <<specs, fault, dry_run, image_override, b_spawned, task, outcome, joined,
                 results, build_failed, all_images>>
  /\ UNCHANGED nonBuildVars

BuildNext ==
  \/ LoadConfig
  \/ DryRunPlan
  \/ PrebuiltJob
  \/ RegistrySetup
  \/ SpawnTask
  \/ SpawnDone
  \/ TaskNotInConfig
  \/ TaskStart
  \/ TaskCloned
  \/ TaskBuilt
  \/ JoinNext
  \/ ReturnResults
  \/ CollectResults
  \/ AbortOnBuildFailure
  \/ DeployJob

SpecBuild == BuildInit /\ [][BuildNext]_vars

\* ------------------------------------------------- parallel build: properties

\* The outcome spec i must have, whatever the other pipelines do: a failure
\* if its name is not configured or its own pipeline is made to fail, else
\* the success carrying the images its own configuration builds.
Unaffected(i, out) ==
  /\ out.name = specs[i]
  /\ out.ok = (specs[i] \in ConfigNames /\ fault[i] = "none")
  /\ out.ok =>
       out.images =
         CASE specs[i] = "pipeline" -> <<"controller", "webhook">>
           [] specs[i] = "console-plugin" -> <<"console-plugin">>

\* C1: when build_components_parallel returns, there are exactly N outcomes,
\* one per spec, in some order: the outcome of a pipeline made to fail is a
\* failure and every other outcome is the success of that spec alone.
C1_OneUnaffectedOutcomePerSpec ==
  m_pc = "collect" =>
    /\ Len(results) = Len(specs)
    /\ \E f \in [DOMAIN specs -> DOMAIN results] :
         /\ \A i, j \in DOMAIN specs : i # j => f[i] # f[j]
         /\ \A i \in DOMAIN specs : Unaffected(i, results[f[i]])

\* C1 witness: the coordinator has returned; two specs, the first one's
\* pipeline failed at the build stage, the second succeeded and its
\* outcome arrived first.
C1_Witness ==
  /\ m_pc = "collect"
  /\ Len(specs) >= 2
  /\ fault[1] = "build"
  /\ fault[2] = "none"
  /\ specs[1] # specs[2]
  /\ results[1].name = specs[2]
  /\ results[1].ok
  /\ ~results[2].ok

\* C2: the Job of the deploy phase that follows the builds is created only
\* when all N outcomes have been collected and none is a failure; the
\* decision is taken with all N outcomes in hand; once a pipeline has failed
\* no Job is ever created and run_multi returns 2.  (With a pre-built image
\* run_multi spawns no build at all; that Job is no build's successor.)
C2_DeployOnlyAfterAllBuildsSucceeded ==
  /\ m_pc = "decide" => /\ Len(results) = Len(specs)
                        /\ joined = DOMAIN specs
  /\ \A j \in DOMAIN jobs :
       jobs[j] = "built" => /\ Len(results) = Len(specs)
                            /\ \A i \in DOMAIN task : task[i] = "finished" /\ outcome[i].ok
                            /\ \A r \in DOMAIN results : results[r].ok
  /\ (\E i \in DOMAIN task : task[i] = "finished" /\ ~outcome[i].ok) =>
       /\ jobs = <<>>
       /\ m_pc = "exit" => exit_code = 2

\* C2 witness: both outcomes: a run that created the Job after N > 1
\* successful builds ...
C2_Witness ==
  /\ m_pc = "exit"
  /\ jobs = <<"built">>
  /\ Len(results) = MaxSpecs
  /\ exit_code = 0

\* ... and a run that returned 2 without a Job because one of N builds failed.
C2_WitnessFailure ==
  /\ m_pc = "exit"
  /\ exit_code = 2
  /\ jobs = <<>>
  /\ Len(results) >= 2
  /\ results[1].ok
  /\ ~results[2].ok

\* ------------------------------------------------- deploy/mod.rs: run_deploy

\* Bug variant: the installer sets are deleted before the deployment is patched.
DeploySteps_InvalidateBeforePatch ==
  << "connect", "verify", "load_config", "mapping", "display", "locate", "invalidate",
     "patch", "rbac", "wait" >>

\* The steps of run_deploy, in program order.
DeploySteps ==
  << "connect", "verify", "load_config", "mapping", "display", "locate", "patch",
     "rbac", "invalidate", "wait" >>

\* Positions of d_pc after the last step.
DeployReturned == Len(DeploySteps) + 1
DeployExited == Len(DeploySteps) + 2

\* The writes a successful step applies to the cluster: the patch step
\* replaces the operator Deployment (operator.rs:170), the invalidation
\* deletes n installer sets (operator.rs:354); the other steps called with `?`
\* only read.
StepWrites(step, n) ==
  CASE step = "patch" -> <<"replace_deployment">>
    [] step = "invalidate" -> [i \in 1..n |-> "delete_installer_set"]
    [] OTHER -> <<>>

\* What wait_for_reconciliation can return.
WaitOutcomes == {"ok", "err_api", "err_exhausted"}

\* ensure_image_pull_rbac (operator.rs): nothing to do when the GET succeeds;
\* on any GET error, a missing RoleBinding included, a create is issued, which
\* the cluster rejects when the RoleBinding exists or the call fails.
EnsureImagePullRbac(exists, get_ok, create_ok) ==
  IF exists /\ get_ok
    THEN [ok |-> TRUE, exists |-> exists, creates |-> 0]
    ELSE [ok |-> ~exists /\ create_ok, exists |-> exists \/ create_ok, creates |-> 1]

\* Bug variant: the error of the waiter is returned to the caller.
AfterWait_Propagates(w) == IF w = "ok" THEN "ok" ELSE "err"

\* Lines 95-108: both arms of the match on the waiter's result fall through
\* to Ok(()).
AfterWait(w) == "ok"

\* main.rs, lines 110-119: the exit code of the deploy command.
DeployExitCode(result) == IF result = "ok" THEN 0 ELSE 2

DeployInit ==
  /\ BatchIdle
  /\ InternalIdle
  /\ RefIdle
  /\ VersionIdle
  /\ SyncIdle
  /\ RefsIdle
  /\ InvIdle
  /\ FindIdle
  /\ MainIdle
  /\ WaitIdle
  /\ TcIdle
  /\ PatchIdle
  /\ BuildIdle
  /\ SetupIdle
  /\ reg_mgmt = "Managed"
  /\ reg_route = "true"
  /\ reg_storage = "pvc"
  /\ route_exists = TRUE
  /\ ns_exists = TRUE
  /\ rb_exists \in BOOLEAN
  /\ sub_exists = TRUE
  /\ op_available = TRUE
  /\ d_verbose \in BOOLEAN
  /\ d_pc = 1
  /\ d_steps = <<>>
  /\ d_failed = ""
  /\ d_wait = "none"
  /\ d_warned = FALSE
  /\ d_result = "none"
  /\ d_writes = 0
  /\ d_exit = -1
  /\ d_mutations = <<>>

\* A step other than the RBAC step and the wait succeeds.
DeployStepOk ==
  /\ UNCHANGED nonDeployVars
  /\ d_pc \in 1..(Len(DeploySteps) - 1)
  /\ DeploySteps[d_pc] # "rbac"
  /\ d_steps' = Append(d_steps, DeploySteps[d_pc])
  /\ \E n \in 0..MaxSets : d_mutations' = d_mutations \o StepWrites(DeploySteps[d_pc], n)
  /\ d_pc' = d_pc + 1
  /\ UNCHANGED <<k8sVars, d_verbose, d_failed, d_wait, d_warned, d_result, d_writes, d_exit>>

\* A step called with `?` fails: run_deploy returns its error.
DeployStepErr ==
  /\ UNCHANGED nonDeployVars
  /\ d_pc \in 1..(Len(DeploySteps) - 1)
  /\ DeploySteps[d_pc] \notin {"display", "rbac"}
  /\ d_steps' = Append(d_steps, DeploySteps[d_pc])
  /\ d_failed' = DeploySteps[d_pc]
  /\ d_result' = "err"
  /\ d_pc' = DeployReturned
  /\ UNCHANGED <<k8sVars, d_verbose, d_wait, d_warned, d_writes, d_exit, d_mutations>>

\* Lines 76-83: operator::ensure_image_pull_rbac(...)?
DeployRbac ==
  /\ UNCHANGED nonDeployVars
  /\ d_pc \in DOMAIN DeploySteps
  /\ DeploySteps[d_pc] = "rbac"
  /\ d_steps' = Append(d_steps, "rbac")
  /\ \E get_ok \in BOOLEAN, create_ok \in BOOLEAN :
       LET r == EnsureImagePullRbac(rb_exists, get_ok, create_ok) IN
         /\ rb_exists' = r.exists
         /\ d_writes' = d_writes + r.creates
         /\ d_mutations' = IF ~rb_exists /\ r.exists
                              THEN Append(d_mutations, "create_rolebinding")
                              ELSE d_mutations
         /\ IF r.ok
              THEN d_pc' = d_pc + 1 /\ UNCHANGED <<d_failed, d_result>>
              ELSE d_pc' = DeployReturned /\ d_failed' = "rbac" /\ d_result' = "err"
  /\ UNCHANGED <<reg_mgmt, reg_route, reg_storage, route_exists, ns_exists, sub_exists,
                 op_available, d_verbose, d_wait, d_warned, d_exit>>

\* Lines 93-108: the waiter's result is matched, an error is printed as a
\* warning, and run_deploy returns.
DeployWait ==
  /\ UNCHANGED nonDeployVars
  /\ d_pc = Len(DeploySteps)
  /\ d_steps' = Append(d_steps, "wait")
  /\ \E w \in WaitOutcomes :
       /\ d_wait' = w
       /\ d_warned' = (w # "ok")
       /\ d_result' = AfterWait(w)
       /\ d_failed' = IF AfterWait(w) = "ok" THEN "" ELSE "wait"
  /\ d_pc' = DeployReturned
  /\ UNCHANGED <<k8sVars, d_verbose, d_writes, d_exit, d_mutations>>

\* The step in progress panics: spawn_blocking hands main a JoinError.
DeployPanic ==
  /\ UNCHANGED nonDeployVars
  /\ d_pc \in DOMAIN DeploySteps
  /\ d_steps' = Append(d_steps, DeploySteps[d_pc])
  /\ d_result' = "panic"
  /\ d_pc' = DeployReturned
  /\ UNCHANGED <<k8sVars, d_verbose, d_failed, d_wait, d_warned, d_writes, d_exit,
                 d_mutations>>

\* main.rs, lines 110-119: the deploy command exits on run_deploy's result.
DeployExit ==
  /\ UNCHANGED nonDeployVars
  /\ d_pc = DeployReturned
  /\ d_exit' = DeployExitCode(d_result)
  /\ d_pc' = DeployExited
  /\ UNCHANGED <<k8sVars, d_verbose, d_steps, d_failed, d_wait, d_warned, d_result,
                 d_writes, d_mutations>>

DeployNext ==
  \/ DeployStepOk
  \/ DeployStepErr
  \/ DeployRbac
  \/ DeployWait
  \/ DeployPanic
  \/ DeployExit

SpecDeploy == DeployInit /\ [][DeployNext]_vars

\* ------------------------------------------------- run_deploy: properties

\* C13: once the waiter has returned, with success or with either failure,
\* run_deploy returns success and the deploy command exits 0; a failure of
\* the waiter shows only as the printed warning.  The waiter is reached only
\* after every earlier step has succeeded.
C13_WaitFailureNonFatal ==
  /\ d_wait # "none" =>
       /\ d_result = "ok"
       /\ d_failed = ""
       /\ d_steps = DeploySteps
       /\ d_exit \in {-1, 0}
       /\ d_warned <=> d_wait # "ok"
  /\ d_pc = DeployExited => (d_exit = 0 <=> d_wait # "none")

\* C13 witness: the waiter ran out of attempts, the warning was printed and
\* the deploy command exited 0.
C13_Witness ==
  /\ d_wait = "err_exhausted"
  /\ d_warned
  /\ d_result = "ok"
  /\ d_exit = 0

\* ------------------------------------------------- setup.rs: program constants

\* wait_for_registry_route: let timeout = Duration::from_secs(30);
route_timeout_secs == 30
\* wait_for_registry_route: let interval = Duration::from_secs(2);
route_interval_secs == 2
\* wait_for_operator_ready: let timeout = Duration::from_secs(300);
ready_timeout_secs == 300
\* wait_for_operator_ready: let interval = Duration::from_secs(5);
ready_interval_secs == 5

\* The steps of run_auto_setup, in program order.
SetupSteps ==
  << "ensure_registry_route", "wait_for_registry_route", "ensure_namespace_rbac",
     "ensure_operator_installed", "wait_for_operator_ready", "ensure_tektonconfig" >>

\* Where each step begins.
StepEntry ==
  << "reg_get", "route_probe", "namespace", "operator", "ready_probe", "tektonconfig" >>

\* ------------------------------------------------- setup.rs: input domains

\* spec.managementState; "" stands for a missing or non-string value.
MgmtStates == {"", "Managed", "Unmanaged", "Removed"}

\* spec.defaultRoute; "absent" stands for a missing or non-boolean value.
RouteFlags == {"absent", "false", "true"}

\* spec.storage: missing, null, the empty object, or a configured backend.
Storages == {"absent", "null", "empty", "emptyDir", "pvc"}

\* The registry configs a whole bootstrap is run on: a removed registry with
\* nothing set, an unmanaged one with empty storage, a fully configured one.
SetupRegistries ==
  { <<"Removed", "absent", "absent">>,
    <<"Unmanaged", "false", "empty">>,
    <<"Managed", "true", "pvc">> }

\* ------------------------------------------------- setup.rs: pure functions

\* Lines 131-134: default_route.
DefaultRoute(r) == r = "true"

\* Lines 136-139: storage_empty.
StorageEmpty(st) == st \in {"absent", "null", "empty"}

\* Lines 141-152: the fields put into spec_patch.
RegistryPatch(m, r, st) ==
  (IF m = "Removed" THEN {"managementState"} ELSE {})
    \cup (IF ~DefaultRoute(r) THEN {"defaultRoute"} ELSE {})
    \cup (IF StorageEmpty(st) THEN {"storage"} ELSE {})

\* The merge patch applied by the cluster: managementState "Managed",
\* defaultRoute true, storage {"emptyDir": {}}, each only if in the patch.
MergedMgmt(m, patch) == IF "managementState" \in patch THEN "Managed" ELSE m
MergedRoute(r, patch) == IF "defaultRoute" \in patch THEN "true" ELSE r
MergedStorage(st, patch) == IF "storage" \in patch THEN "emptyDir" ELSE st

\* ensure_operator_installed, lines 249-291: nothing to do when TektonConfig
\* "config" or the Subscription can be read; otherwise the Subscription is
\* created, which the cluster rejects when it exists or the call fails.
EnsureOperatorInstalled(tc_readable, sub, sub_ok, create_ok) ==
  IF tc_readable \/ (sub /\ sub_ok)
    THEN [ok |-> TRUE, sub |-> sub, creates |-> 0]
    ELSE [ok |-> ~sub /\ create_ok, sub |-> sub \/ create_ok, creates |-> 1]

\* Bug variant: the poll never gives up.
TimedOut_Never(elapsed, timeout) == FALSE

\* if start.elapsed() > timeout { bail!(...) }
TimedOut(elapsed, timeout) == elapsed > timeout

\* Bug variant: a failed step ends the bootstrap.
NextStep_StopsOnError(step, ret) == IF ret = "ok" THEN step + 1 ELSE Len(SetupSteps) + 1

\* The blocks of lines 18-93 follow one another unconditionally.
NextStep(step, ret) == step + 1

\* Bug variant: the warning of the two waits is not recorded.
WarningsAfter_EnsureOnly(w, step, ret) ==
  IF ret # "ok" /\ step \notin {2, 5} THEN Append(w, step) ELSE w

\* if let Err(e) = step(..) { ...; warnings.push(msg); }
WarningsAfter(w, step, ret) == IF ret # "ok" THEN Append(w, step) ELSE w

\* The cluster objects the bootstrap reads and writes.
SetupCluster == <<reg_mgmt, reg_route, reg_storage, route_exists, ns_exists, rb_exists,
                  sub_exists, op_available, crd_served, tc_exists>>

\* ------------------------------------------------- setup.rs: state machine

SetupInit ==
  /\ BatchIdle
  /\ InternalIdle
  /\ RefIdle
  /\ VersionIdle
  /\ SyncIdle
  /\ RefsIdle
  /\ InvIdle
  /\ FindIdle
  /\ MainIdle
  /\ WaitIdle
  /\ PatchIdle
  /\ BuildIdle
  /\ DeployIdle
  /\ \E r \in SetupRegistries :
       reg_mgmt = r[1] /\ reg_route = r[2] /\ reg_storage = r[3]
  /\ route_exists \in BOOLEAN
  /\ route_exists => (reg_mgmt = "Managed" /\ reg_route = "true")
  /\ ns_exists \in BOOLEAN
  /\ rb_exists \in BOOLEAN
  /\ rb_exists => ns_exists
  /\ sub_exists \in BOOLEAN
  /\ op_available \in BOOLEAN
  /\ crd_served \in BOOLEAN
  /\ tc_exists \in BOOLEAN
  /\ crd_served => op_available
  /\ tc_exists => crd_served
  /\ t_pc = "idle"
  /\ t_attempt = 0
  /\ backoff = 0
  /\ t_result = "none"
  /\ t_delays = <<>>
  /\ t_errors = <<>>
  /\ t_creates = 0
  /\ s_pc = "connect"
  /\ s_step = 0
  /\ s_ret = "none"
  /\ s_run = 1
  /\ s_first = <<>>
  /\ s_result = "none"
  /\ s_trace = <<>>
  /\ s_outcomes = <<>>
  /\ warnings = <<>>
  /\ s_patch = {}
  /\ s_writes = <<>>
  /\ s_read_failed = FALSE
  /\ s_clock = 0
  /\ s_prev = 0
  /\ s_probes = 0
  /\ s_seen = FALSE

\* Line 13: create_kube_client()?  Without a client no step is attempted.
SetupConnect ==
  /\ UNCHANGED nonSetupVars
  /\ s_pc = "connect"
  /\ \E client_ok \in BOOLEAN :
       IF client_ok
         THEN /\ s_step' = 1
              /\ s_pc' = "begin"
              /\ UNCHANGED s_result
         ELSE /\ s_result' = "err"
              /\ s_pc' = "done"
              /\ UNCHANGED s_step
  /\ UNCHANGED <<k8sVars, tcVars, s_ret, s_run, s_first, setupHist, setupEff, setupPoll>>

\* The block of step s_step is entered and its function called.
StepBegin ==
  /\ UNCHANGED nonSetupVars
  /\ s_pc = "begin"
  /\ s_trace' = Append(s_trace, s_step)
  /\ s_pc' = StepEntry[s_step]
  /\ s_clock' = 0
  /\ s_prev' = 0
  /\ s_probes' = 0
  /\ s_seen' = FALSE
  /\ IF SetupSteps[s_step] = "ensure_tektonconfig"
       THEN /\ t_pc' = "check_exists"
            /\ t_attempt' = 0
            /\ backoff' = 0
            /\ t_result' = "none"
            /\ t_delays' = <<>>
            /\ t_errors' = <<>>
            /\ t_creates' = 0
            /\ UNCHANGED <<crd_served, tc_exists>>
       ELSE UNCHANGED tcVars
  /\ UNCHANGED <<k8sVars, s_step, s_ret, setupRun, s_outcomes, warnings, setupEff>>

\* Lines 119-157: read the registry config and work out the patch; return
\* at once on a failed read or when nothing is wrong.
RegGet ==
  /\ UNCHANGED nonSetupVars
  /\ s_pc = "reg_get"
  /\ \E api_ok \in BOOLEAN :
       IF ~api_ok
         THEN /\ s_ret' = "err_api"
              /\ s_pc' = "ret"
              /\ s_read_failed' = (s_run = 2)
              /\ UNCHANGED s_patch
         ELSE /\ s_patch' = RegistryPatch(reg_mgmt, reg_route, reg_storage)
              /\ UNCHANGED s_read_failed
              /\ IF RegistryPatch(reg_mgmt, reg_route, reg_storage) = {}
                   THEN s_ret' = "ok" /\ s_pc' = "ret"
                   ELSE s_pc' = "reg_patch" /\ UNCHANGED s_ret
  /\ UNCHANGED <<k8sVars, tcVars, s_step, setupRun, setupHist, s_writes, setupPoll>>

\* Lines 159-169: send the merge patch.
RegPatch ==
  /\ UNCHANGED nonSetupVars
  /\ s_pc = "reg_patch"
  /\ s_writes' = Append(s_writes, "patch_registry")
  /\ \E api_ok \in BOOLEAN :
       IF api_ok
         THEN /\ reg_mgmt' = MergedMgmt(reg_mgmt, s_patch)
              /\ reg_route' = MergedRoute(reg_route, s_patch)
              /\ reg_storage' = MergedStorage(reg_storage, s_patch)
              /\ s_ret' = "ok"
         ELSE /\ UNCHANGED regVars
              /\ s_ret' = "err_api"
  /\ s_pc' = "ret"
  /\ UNCHANGED <<route_exists, ns_exists, rb_exists, sub_exists, op_available, tcVars,
                 s_step, setupRun, setupHist, s_patch, s_read_failed, setupPoll>>

\* Lines 179-200: one probe of wait_for_registry_route with the tests that
\* follow it.  `oc` may fail to start, and may fail to show an existing route.
RouteProbe ==
  /\ UNCHANGED nonSetupVars
  /\ s_pc = "route_probe"
  /\ s_clock' = s_clock + ApiSecs
  /\ s_probes' = s_probes + 1
  /\ \E exec_ok \in BOOLEAN, cmd_ok \in BOOLEAN :
       /\ s_seen' = (exec_ok /\ cmd_ok /\ route_exists)
       /\ IF ~exec_ok
            THEN s_ret' = "err_exec" /\ s_pc' = "ret" /\ UNCHANGED s_prev
            ELSE IF cmd_ok /\ route_exists
              THEN s_ret' = "ok" /\ s_pc' = "ret" /\ UNCHANGED s_prev
              ELSE IF TimedOut(s_clock', route_timeout_secs)
                THEN s_ret' = "err_timeout" /\ s_pc' = "ret" /\ UNCHANGED s_prev
                ELSE s_pc' = "route_sleep" /\ s_prev' = s_clock' /\ UNCHANGED s_ret
  /\ UNCHANGED <<k8sVars, tcVars, s_step, setupRun, setupHist, setupEff>>

\* Line 202: std::thread::sleep(interval).
RouteSleep ==
  /\ UNCHANGED nonSetupVars
  /\ s_pc = "route_sleep"
  /\ s_clock' = s_clock + route_interval_secs
  /\ s_pc' = "route_probe"
  /\ UNCHANGED <<k8sVars, tcVars, s_step, s_ret, setupRun, setupHist, setupEff,
                 s_prev, s_probes, s_seen>>

\* Lines 211-229: the namespace is read, and created on a 404.
EnsureNamespace ==
  /\ UNCHANGED nonSetupVars
  /\ s_pc = "namespace"
  /\ \E get_ok \in BOOLEAN, create_ok \in BOOLEAN :
       IF ~get_ok
         THEN /\ s_ret' = "err_api"
              /\ s_pc' = "ret"
              /\ s_read_failed' = (s_run = 2)
              /\ UNCHANGED <<ns_exists, s_writes>>
         ELSE IF ns_exists
           THEN /\ s_pc' = "rbac"
                /\ UNCHANGED <<ns_exists, s_ret, s_writes, s_read_failed>>
           ELSE /\ s_writes' = Append(s_writes, "create_namespace")
                /\ ns_exists' = create_ok
                /\ IF create_ok
                     THEN s_pc' = "rbac" /\ UNCHANGED s_ret
                     ELSE s_pc' = "ret" /\ s_ret' = "err_api"
                /\ UNCHANGED s_read_failed
  /\ UNCHANGED <<regVars, route_exists, rb_exists, sub_exists, op_available, tcVars,
                 s_step, setupRun, setupHist, s_patch, setupPoll>>

\* Line 232: ensure_image_pull_rbac(rt, client, ns_name)?
EnsureRbac ==
  /\ UNCHANGED nonSetupVars
  /\ s_pc = "rbac"
  /\ \E get_ok \in BOOLEAN, create_ok \in BOOLEAN :
       LET r == EnsureImagePullRbac(rb_exists, get_ok, create_ok) IN
         /\ rb_exists' = r.exists
         /\ s_writes' = IF r.creates = 1 THEN Append(s_writes, "create_rolebinding")
                                         ELSE s_writes
         /\ s_read_failed' = (s_read_failed \/ (s_run = 2 /\ rb_exists /\ ~get_ok))
         /\ s_ret' = IF r.ok THEN "ok" ELSE "err_api"
  /\ s_pc' = "ret"
  /\ UNCHANGED <<regVars, route_exists, ns_exists, sub_exists, op_available, tcVars,
                 s_step, setupRun, setupHist, s_patch, setupPoll>>

\* Lines 239-292: ensure_operator_installed.
EnsureOperator ==
  /\ UNCHANGED nonSetupVars
  /\ s_pc = "operator"
  /\ \E tc_ok \in BOOLEAN, sub_ok \in BOOLEAN, create_ok \in BOOLEAN :
       LET readable == TcGetOk(crd_served, tc_exists, tc_ok)
           r == EnsureOperatorInstalled(readable, sub_exists, sub_ok, create_ok) IN
         /\ sub_exists' = r.sub
         /\ s_writes' = IF r.creates = 1 THEN Append(s_writes, "create_subscription")
                                         ELSE s_writes
         /\ s_read_failed' = \/ s_read_failed
                             \/ (s_run = 2 /\ crd_served /\ tc_exists /\ ~tc_ok)
                             \/ (s_run = 2 /\ ~readable /\ sub_exists /\ ~sub_ok)
         /\ s_ret' = IF r.ok THEN "ok" ELSE "err_api"
  /\ s_pc' = "ret"
  /\ UNCHANGED <<regVars, route_exists, ns_exists, rb_exists, op_available, tcVars,
                 s_step, setupRun, setupHist, s_patch, setupPoll>>

\* Lines 310-333: one scan of wait_for_operator_ready over the known
\* namespaces and names, with the timeout test that follows it.  A GET that
\* fails is skipped.
ReadyProbe ==
  /\ UNCHANGED nonSetupVars
  /\ s_pc = "ready_probe"
  /\ s_clock' = s_clock + ApiSecs
  /\ s_probes' = s_probes + 1
  /\ \E get_ok \in BOOLEAN :
       /\ s_seen' = (get_ok /\ op_available)
       /\ IF get_ok /\ op_available
            THEN s_ret' = "ok" /\ s_pc' = "ret" /\ UNCHANGED s_prev
            ELSE IF TimedOut(s_clock', ready_timeout_secs)
              THEN s_ret' = "err_timeout" /\ s_pc' = "ret" /\ UNCHANGED s_prev
              ELSE s_pc' = "ready_sleep" /\ s_prev' = s_clock' /\ UNCHANGED s_ret
  /\ UNCHANGED <<k8sVars, tcVars, s_step, setupRun, setupHist, setupEff>>

\* Line 333: std::thread::sleep(interval).
ReadySleep ==
  /\ UNCHANGED nonSetupVars
  /\ s_pc = "ready_sleep"
  /\ s_clock' = s_clock + ready_interval_secs
  /\ s_pc' = "ready_probe"
  /\ UNCHANGED <<k8sVars, tcVars, s_step, s_ret, setupRun, setupHist, setupEff,
                 s_prev, s_probes, s_seen>>

\* Line 85: ensure_tektonconfig has returned.
TcReturn ==
  /\ UNCHANGED nonSetupVars
  /\ s_pc = "tektonconfig"
  /\ t_pc = "done"
  /\ s_ret' = IF t_result = "ok" THEN "ok" ELSE "err_api"
  /\ s_pc' = "ret"
  /\ UNCHANGED <<k8sVars, tcVars, s_step, setupRun, setupHist, setupEff, setupPoll>>

\* The `if let Err(e)` of the block of the step that returned: a warning is
\* pushed on an error, and the next block follows.
StepReturn ==
  /\ UNCHANGED nonSetupVars
  /\ s_pc = "ret"
  /\ warnings' = WarningsAfter(warnings, s_step, s_ret)
  /\ s_outcomes' = Append(s_outcomes, IF s_ret = "ok" THEN "ok" ELSE "err")
  /\ s_patch' = {}
  /\ s_ret' = "none"
  /\ IF NextStep(s_step, s_ret) \in DOMAIN SetupSteps
       THEN s_step' = NextStep(s_step, s_ret) /\ s_pc' = "begin"
       ELSE s_pc' = "finish" /\ UNCHANGED s_step
  /\ UNCHANGED <<k8sVars, tcVars, setupRun, s_trace, s_writes, s_read_failed, setupPoll>>

\* Lines 95-104: the summary is printed and Ok(()) returned.
SetupFinish ==
  /\ UNCHANGED nonSetupVars
  /\ s_pc = "finish"
  /\ s_result' = "ok"
  /\ s_pc' = "done"
  /\ UNCHANGED <<k8sVars, tcVars, s_step, s_ret, s_run, s_first, setupHist, setupEff,
                 setupPoll>>

\* The tool is invoked again after a run in which every step succeeded.
SetupRerun ==
  /\ UNCHANGED nonSetupVars
  /\ s_pc = "done"
  /\ s_run = 1
  /\ s_result = "ok"
  /\ warnings = <<>>
  /\ s_run' = 2
  /\ s_first' = SetupCluster
  /\ s_result' = "none"
  /\ s_pc' = "connect"
  /\ s_step' = 0
  /\ s_trace' = <<>>
  /\ s_outcomes' = <<>>
  /\ s_patch' = {}
  /\ s_writes' = <<>>
  /\ s_read_failed' = FALSE
  /\ t_pc' = "idle"
  /\ t_attempt' = 0
  /\ backoff' = 0
  /\ t_result' = "none"
  /\ t_delays' = <<>>
  /\ t_errors' = <<>>
  /\ t_creates' = 0
  /\ UNCHANGED <<k8sVars, crd_served, tc_exists, s_ret, warnings, setupPoll>>

\* The registry operator exposes the default route of a managed registry.
RouteCreated ==
  /\ UNCHANGED nonSetupVars
  /\ s_pc \notin {"idle", "done"}
  /\ reg_mgmt = "Managed" /\ reg_route = "true"
  /\ ~route_exists
  /\ route_exists' = TRUE
  /\ UNCHANGED <<regVars, ns_exists, rb_exists, sub_exists, op_available, tcVars,
                 setupVars>>

\* OLM installs the subscribed operator, whose Deployment becomes Available.
OperatorAvailable ==
  /\ UNCHANGED nonSetupVars
  /\ s_pc \notin {"idle", "done"}
  /\ sub_exists
  /\ ~op_available
  /\ op_available' = TRUE
  /\ UNCHANGED <<regVars, route_exists, ns_exists, rb_exists, sub_exists, tcVars,
                 setupVars>>

SetupNext ==
  \/ SetupConnect
  \/ StepBegin
  \/ RegGet
  \/ RegPatch
  \/ RouteProbe
  \/ RouteSleep
  \/ EnsureNamespace
  \/ EnsureRbac
  \/ EnsureOperator
  \/ ReadyProbe
  \/ ReadySleep
  \/ CrdRegistered
  \/ OtherActorCreates
  \/ TcCheckExists
  \/ TcCreateSucceeds
  \/ TcCreateFailsRetry
  \/ TcSleep
  \/ TcCreateFailsLast
  \/ TcReturn
  \/ StepReturn
  \/ SetupFinish
  \/ SetupRerun
  \/ RouteCreated
  \/ OperatorAvailable

SpecSetup == SetupInit /\ [][SetupNext]_vars

\* ------------------------------------------------- run_auto_setup: properties

\* ensure_registry_route on its own, on every registry config.
RegistryInit ==
  /\ BatchIdle
  /\ InternalIdle
  /\ RefIdle
  /\ VersionIdle
  /\ SyncIdle
  /\ RefsIdle
  /\ InvIdle
  /\ FindIdle
  /\ MainIdle
  /\ WaitIdle
  /\ TcIdle
  /\ PatchIdle
  /\ BuildIdle
  /\ DeployIdle
  /\ reg_mgmt \in MgmtStates
  /\ reg_route \in RouteFlags
  /\ reg_storage \in Storages
  /\ route_exists = (reg_mgmt = "Managed" /\ reg_route = "true")
  /\ ns_exists = TRUE
  /\ rb_exists = TRUE
  /\ sub_exists = TRUE
  /\ op_available = TRUE
  /\ s_pc = "reg_get"
  /\ s_step = 1
  /\ s_ret = "none"
  /\ s_run = 1
  /\ s_first = <<>>
  /\ s_result = "none"
  /\ s_trace = <<1>>
  /\ s_outcomes = <<>>
  /\ warnings = <<>>
  /\ s_patch = {}
  /\ s_writes = <<>>
  /\ s_read_failed = FALSE
  /\ s_clock = 0
  /\ s_prev = 0
  /\ s_probes = 0
  /\ s_seen = FALSE

RegistryNext ==
  \/ RegGet
  \/ RegPatch

SpecRegistry == RegistryInit /\ [][RegistryNext]_vars

\* ------------------------------------------------- run_auto_setup: properties

\* The ceiling and the interval of the poll of step `step`.
PollTimeout(step) == IF step = 2 THEN route_timeout_secs ELSE ready_timeout_secs
PollInterval(step) == IF step = 2 THEN route_interval_secs ELSE ready_interval_secs

\* The steps that returned an error, in order.
RECURSIVE FailedFrom(_, _)
FailedFrom(outcomes, i) ==
  IF i > Len(outcomes) THEN <<>>
  ELSE (IF outcomes[i] = "err" THEN <<i>> ELSE <<>>) \o FailedFrom(outcomes, i + 1)

FailedSteps(outcomes) == FailedFrom(outcomes, 1)

\* C12: each of the two bootstrap polls has made at least one probe when it
\* returns; it returns success at a probe that observed what it waits for,
\* and no probe that observed it is followed by a further one; it returns
\* the time-out failure at the first probe after which the elapsed time
\* exceeds its ceiling (30 s, 300 s); and the elapsed time never grows past
\* the ceiling by more than one interval and one probe, so neither poll
\* goes on forever.
C12_PollsEndAtCeiling ==
  s_step \in {2, 5} =>
    /\ s_pc = "ret" =>
         /\ s_probes >= 1
         /\ s_ret \in {"ok", "err_timeout"} \cup (IF s_step = 2 THEN {"err_exec"} ELSE {})
         /\ s_ret = "ok" <=> s_seen
         /\ s_ret = "err_timeout" => /\ s_clock > PollTimeout(s_step)
                                     /\ s_prev <= PollTimeout(s_step)
    /\ s_pc \in {"route_probe", "route_sleep", "ready_probe", "ready_sleep"} =>
         /\ ~s_seen
         /\ s_prev <= PollTimeout(s_step)
         /\ s_clock <= s_prev + PollInterval(s_step)
    /\ s_clock <= PollTimeout(s_step) + PollInterval(s_step) + ApiSecs

\* C12 witness: the route poll has succeeded and the operator poll has timed
\* out after more than one probe.
C12_Witness ==
  /\ s_step = 5
  /\ s_pc = "ret"
  /\ s_ret = "err_timeout"
  /\ s_probes > 1
  /\ s_outcomes[2] = "ok"

\* C16: with a client, the six steps are attempted once each in the declared
\* order: the steps attempted so far are 1, 2, .., k, the step after a
\* finished one is attempted whatever it returned, and the run ends only
\* after all six have been attempted.
C16_StepsOnceInOrder ==
  /\ Len(s_trace) <= Len(SetupSteps)
  /\ \A i \in DOMAIN s_trace : s_trace[i] = i
  /\ s_step >= 1 => Len(s_trace) = (IF s_pc = "begin" THEN s_step - 1 ELSE s_step)
  /\ Len(s_outcomes) = (IF s_pc \in {"begin", "finish", "done", "connect"}
                          THEN Len(s_trace) ELSE Len(s_trace) - 1)
  /\ (s_pc = "finish" \/ s_result = "ok") => /\ Len(s_trace) = Len(SetupSteps)
                                             /\ Len(s_outcomes) = Len(SetupSteps)

\* C16 witness: a finished run in which steps 1 and 3 failed and all six
\* steps were attempted.
C16_Witness ==
  /\ s_pc = "done"
  /\ Len(s_trace) = Len(SetupSteps)
  /\ s_outcomes[1] = "err"
  /\ s_outcomes[3] = "err"
  /\ s_outcomes[4] = "ok"

\* C17: whatever the six steps returned, run_auto_setup returns success
\* after the sixth, and its warnings are exactly the failed steps, one entry
\* each, in step order.
C17_SuccessAndOneWarningPerFailure ==
  /\ warnings = FailedSteps(s_outcomes)
  /\ Len(s_outcomes) = Len(SetupSteps) => s_pc \in {"finish", "done"}
  /\ (s_pc = "done" /\ Len(s_outcomes) = Len(SetupSteps)) => s_result = "ok"
  /\ s_result = "ok" => Len(s_outcomes) = Len(SetupSteps)

\* C17 witness: a run with failed and successful steps mixed has returned.
C17_Witness ==
  /\ s_pc = "done"
  /\ s_result = "ok"
  /\ warnings = <<2, 4, 5>>

\* C19 as stated: a second run, on the cluster left by a first run in which
\* every step succeeded, issues no create or patch call and leaves the
\* cluster objects as they were.
C19_RerunWritesNothing ==
  s_run = 2 => /\ s_writes = <<>>
               /\ t_creates = 0
               /\ SetupCluster = s_first

\* As long as no read of the second run has failed, it has written nothing.
C19_RerunWritesNothingWhileReadsSucceed ==
  (s_run = 2 /\ ~s_read_failed) => /\ s_writes = <<>>
                                   /\ SetupCluster = s_first

\* C20 as stated: whenever ensure_registry_route returns success the registry
\* config is managed, has its default route enabled and has a storage
\* backend, and the patch sent held only the fields that were wrong.
C20_RegistryManagedExposedStored ==
  (s_step = 1 /\ s_pc = "ret" /\ s_ret = "ok") =>
    /\ reg_mgmt = "Managed"
    /\ reg_route = "true"
    /\ ~StorageEmpty(reg_storage)
    /\ s_writes = <<>> <=> s_patch = {}

\* What the code does ensure: the registry is not removed, its default route
\* is enabled and it has a storage backend.
C20_RegistryExposedStored ==
  (s_step = 1 /\ s_pc = "ret" /\ s_ret = "ok") =>
    /\ reg_mgmt # "Removed"
    /\ reg_route = "true"
    /\ ~StorageEmpty(reg_storage)
    /\ s_writes = <<>> <=> s_patch = {}

\* ------------------------------------------------- main.rs: the commands

\* The subcommands that run the bootstrapper before their pipeline.
Commands == {"build", "deploy", "run"}

\* The global and per-command flags main branches on, and whether the
\* service-account token file exists (incluster::is_incluster).
Flags ==
  [no_auto_setup : BOOLEAN, skip_build : BOOLEAN, incluster : BOOLEAN,
   dry_run : BOOLEAN, date_range : BOOLEAN]

\* The three arms of `match result` after spawn_blocking(run_auto_setup):
\* Ok(Ok(())), Ok(Err(e)) and Err(JoinError) for a panic of the task.
BootOutcomes == {"ok", "err", "panic"}

\* The calls that build, deploy or test.
PipelineCalls ==
  {"run_build", "load_image_names", "run_deploy", "load_config", "run_tests", "run_multi"}

\* Bug variant: an error or a panic of the bootstrapper ends the command.
BootstrapContinues_OnlyOnSuccess(o) == o = "ok"

\* Lines 69-73, 93-97, 192-196, 565-569: every arm falls through; the two
\* failure arms print a warning.
BootstrapContinues(o) == TRUE

\* Line 187: the run command calls the bootstrapper itself only when it will
\* build locally.
AutoSetupInMain(cmd, f) ==
  /\ ~f.no_auto_setup
  /\ cmd = "run" => ~f.skip_build /\ ~f.incluster

\* Lines 198, 213: the run command hands over to run_deploy_and_test.
DeployAndTest(cmd, f) == cmd = "run" /\ (f.skip_build \/ f.incluster)

\* Line 560: run_deploy_and_test calls the bootstrapper on entry.
AutoSetupInDeployAndTest(f) == ~f.no_auto_setup

MainInit ==
  /\ BatchIdle
  /\ InternalIdle
  /\ RefIdle
  /\ VersionIdle
  /\ SyncIdle
  /\ RefsIdle
  /\ InvIdle
  /\ FindIdle
  /\ WaitIdle
  /\ TcIdle
  /\ PatchIdle
  /\ BuildIdle
  /\ K8sIdle
  /\ DeployIdle
  /\ SetupIdle
  /\ a_cmd \in Commands
  /\ a_flags \in Flags
  /\ a_n \in 1..MaxSpecs
  /\ a_pc = "start"
  /\ a_i = 0
  /\ a_boot = "none"
  /\ a_boots = 0
  /\ a_events = <<>>
  /\ a_exit = -1
  /\ a_tasks = [i \in 1..a_n |-> "idle"]
  /\ a_log = <<>>

MainExit(code) ==
  /\ a_pc' = "exited"
  /\ a_exit' = code

\* Lines 63-64, 82-86: the build and deploy commands.
MainStart ==
  /\ a_pc = "start"
  /\ a_cmd \in {"build", "deploy"}
  /\ a_pc' = IF AutoSetupInMain(a_cmd, a_flags) THEN "bootstrap" ELSE "pipeline"
  /\ UNCHANGED <<a_cmd, a_flags, a_n, a_i, a_boot, a_boots, a_events, a_exit>>
  /\ UNCHANGED <<a_tasks, a_log>>
  /\ UNCHANGED nonMainVars

\* Lines 155-169: --date-range re-invokes the binary once per date and exits.
RunBatch ==
  /\ a_pc = "start"
  /\ a_cmd = "run"
  /\ a_flags.date_range
  /\ a_events' = Append(a_events, "run_batch_historical")
  /\ \E code \in {0, 1, 2} : MainExit(code)
  /\ UNCHANGED <<a_cmd, a_flags, a_n, a_i, a_boot, a_boots>>
  /\ UNCHANGED <<a_tasks, a_log>>
  /\ UNCHANGED nonMainVars

\* Lines 171-196: the run command parses --components, then decides on the
\* bootstrapper.
RunStart ==
  /\ a_pc = "start"
  /\ a_cmd = "run"
  /\ ~a_flags.date_range
  /\ \E parse_ok \in BOOLEAN :
       IF ~parse_ok
         THEN MainExit(2)
         ELSE /\ a_pc' = IF AutoSetupInMain(a_cmd, a_flags) THEN "bootstrap" ELSE "pipeline"
              /\ UNCHANGED a_exit
  /\ UNCHANGED <<a_cmd, a_flags, a_n, a_i, a_boot, a_boots, a_events>>
  /\ UNCHANGED <<a_tasks, a_log>>
  /\ UNCHANGED nonMainVars

\* Lines 65-73, 89-97, 188-196, 561-569: spawn_blocking(run_auto_setup) and
\* the match on its result.
Bootstrap ==
  /\ a_pc = "bootstrap"
  /\ \E o \in BootOutcomes :
       /\ a_boot' = o
       /\ IF BootstrapContinues(o)
            THEN /\ a_pc' = IF DeployAndTest(a_cmd, a_flags) THEN "dat_config" ELSE "pipeline"
                 /\ UNCHANGED a_exit
            ELSE MainExit(2)
  /\ a_boots' = a_boots + 1
  /\ a_events' = Append(a_events, "run_auto_setup")
  /\ UNCHANGED <<a_cmd, a_flags, a_n, a_i>>
  /\ UNCHANGED <<a_tasks, a_log>>
  /\ UNCHANGED nonMainVars

\* Lines 75-81: run_build and the exit code of the build command.
RunBuild ==
  /\ a_pc = "pipeline"
  /\ a_cmd = "build"
  /\ a_events' = Append(a_events, "run_build")
  /\ \E ok \in BOOLEAN : MainExit(IF ok THEN 0 ELSE 2)
  /\ UNCHANGED <<a_cmd, a_flags, a_n, a_i, a_boot, a_boots>>
  /\ UNCHANGED <<a_tasks, a_log>>
  /\ UNCHANGED nonMainVars

\* Lines 101-107: the deploy command takes the image names from the config.
LoadImageNames ==
  /\ a_pc = "pipeline"
  /\ a_cmd = "deploy"
  /\ a_events' = Append(a_events, "load_image_names")
  /\ \E ok \in BOOLEAN :
       IF ok
         THEN a_pc' = "deploy_call" /\ UNCHANGED a_exit
         ELSE MainExit(2)
  /\ UNCHANGED <<a_cmd, a_flags, a_n, a_i, a_boot, a_boots>>
  /\ UNCHANGED <<a_tasks, a_log>>
  /\ UNCHANGED nonMainVars

\* Lines 110-123: spawn_blocking(run_deploy) and the exit code of the deploy
\* command.
DeployCall ==
  /\ a_pc = "deploy_call"
  /\ a_events' = Append(a_events, "run_deploy")
  /\ \E r \in {"ok", "err", "panic"} : MainExit(DeployExitCode(r))
  /\ UNCHANGED <<a_cmd, a_flags, a_n, a_i, a_boot, a_boots>>
  /\ UNCHANGED <<a_tasks, a_log>>
  /\ UNCHANGED nonMainVars

\* Lines 198-226, 560: the run command enters run_deploy_and_test.
EnterDeployAndTest ==
  /\ a_pc = "pipeline"
  /\ DeployAndTest(a_cmd, a_flags)
  /\ a_pc' = IF AutoSetupInDeployAndTest(a_flags) THEN "bootstrap" ELSE "dat_config"
  /\ UNCHANGED <<a_cmd, a_flags, a_n, a_i, a_boot, a_boots, a_events, a_exit>>
  /\ UNCHANGED <<a_tasks, a_log>>
  /\ UNCHANGED nonMainVars

\* Lines 231-232: the run command builds locally and creates the Job.
RunMulti ==
  /\ a_pc = "pipeline"
  /\ a_cmd = "run"
  /\ ~DeployAndTest(a_cmd, a_flags)
  /\ a_events' = Append(a_events, "run_multi")
  /\ \E code \in {0, 1, 2} : MainExit(code)
  /\ UNCHANGED <<a_cmd, a_flags, a_n, a_i, a_boot, a_boots>>
  /\ UNCHANGED <<a_tasks, a_log>>
  /\ UNCHANGED nonMainVars

\* Lines 572-589: run_deploy_and_test loads the config and finds the registry
\* route; either failure returns 2.
DatConfig ==
  /\ a_pc = "dat_config"
  /\ a_events' = Append(a_events, "load_config")
  /\ \E ok \in BOOLEAN :
       IF ok
         THEN a_pc' = "dat_deploy" /\ a_i' = 1 /\ UNCHANGED a_exit
         ELSE MainExit(2) /\ UNCHANGED a_i
  /\ UNCHANGED <<a_cmd, a_flags, a_n, a_boot, a_boots>>
  /\ UNCHANGED <<a_tasks, a_log>>
  /\ UNCHANGED nonMainVars

\* Bug variant: the loop goes on without waiting for the task.
AwaitReady_Detached(tasks, i) == TRUE

\* Lines 603-606: `.await` on the JoinHandle completes when the task has
\* returned or panicked.
AwaitReady(tasks, i) == tasks[i] = "done"

\* The run_deploy tasks in progress.
Running(tasks) == {i \in DOMAIN tasks : tasks[i] \in {"get", "replace"}}

\* Lines 593-606: one iteration of the deploy loop: a component without image
\* names is skipped, for the others run_deploy is spawned on the blocking pool.
DatSpawn ==
  /\ a_pc = "dat_deploy"
  /\ a_i <= a_n
  /\ \E names_ok \in BOOLEAN :
       IF names_ok
         THEN /\ a_events' = Append(a_events, "run_deploy")
              /\ a_tasks' = [a_tasks EXCEPT ![a_i] = "get"]
              /\ a_pc' = "dat_await"
              /\ UNCHANGED a_i
         ELSE /\ a_i' = a_i + 1
              /\ UNCHANGED <<a_events, a_tasks, a_pc>>
  /\ UNCHANGED <<a_cmd, a_flags, a_n, a_boot, a_boots, a_exit, a_log>>
  /\ UNCHANGED nonMainVars

\* Lines 606-611: the task's result is matched, no arm ends the loop.
DatAwait ==
  /\ a_pc = "dat_await"
  /\ AwaitReady(a_tasks, a_i)
  /\ a_i' = a_i + 1
  /\ a_pc' = "dat_deploy"
  /\ UNCHANGED <<a_cmd, a_flags, a_n, a_boot, a_boots, a_events, a_exit, a_tasks, a_log>>
  /\ UNCHANGED nonMainVars

\* operator.rs, lines 119-121: a running run_deploy reads the operator Deployment.
TaskGet ==
  /\ \E i \in DOMAIN a_tasks :
       /\ a_tasks[i] = "get"
       /\ a_tasks' = [a_tasks EXCEPT ![i] = "replace"]
       /\ a_log' = Append(a_log, <<i, "get">>)
  /\ UNCHANGED <<a_cmd, a_flags, a_n, a_pc, a_i, a_boot, a_boots, a_events, a_exit>>
  /\ UNCHANGED nonMainVars

\* operator.rs, lines 169-176: it writes the Deployment back; the rest of
\* run_deploy does not touch the Deployment.
TaskReplace ==
  /\ \E i \in DOMAIN a_tasks :
       /\ a_tasks[i] = "replace"
       /\ a_tasks' = [a_tasks EXCEPT ![i] = "done"]
       /\ a_log' = Append(a_log, <<i, "replace">>)
  /\ UNCHANGED <<a_cmd, a_flags, a_n, a_pc, a_i, a_boot, a_boots, a_events, a_exit>>
  /\ UNCHANGED nonMainVars

\* A running run_deploy returns an error or panics before its next call.
TaskFails ==
  /\ \E i \in DOMAIN a_tasks :
       /\ a_tasks[i] \in {"get", "replace"}
       /\ a_tasks' = [a_tasks EXCEPT ![i] = "done"]
  /\ UNCHANGED <<a_cmd, a_flags, a_n, a_pc, a_i, a_boot, a_boots, a_events, a_exit, a_log>>
  /\ UNCHANGED nonMainVars

\* Lines 614-631: the test phase and the exit code of run_deploy_and_test.
DatTest ==
  /\ a_pc = "dat_deploy"
  /\ a_i > a_n
  /\ a_events' = Append(a_events, "run_tests")
  /\ \E passed \in BOOLEAN : MainExit(IF passed THEN 0 ELSE 1)
  /\ UNCHANGED <<a_cmd, a_flags, a_n, a_i, a_boot, a_boots>>
  /\ UNCHANGED <<a_tasks, a_log>>
  /\ UNCHANGED nonMainVars

MainNext ==
  \/ MainStart
  \/ RunBatch
  \/ RunStart
  \/ Bootstrap
  \/ RunBuild
  \/ LoadImageNames
  \/ DeployCall
  \/ EnterDeployAndTest
  \/ RunMulti
  \/ DatConfig
  \/ DatSpawn
  \/ DatAwait
  \/ TaskGet
  \/ TaskReplace
  \/ TaskFails
  \/ DatTest

SpecMain == MainInit /\ [][MainNext]_vars

\* ------------------------------------------------- main.rs: properties

\* The invocation has made a call that builds, deploys or tests.
PipelineStarted == \E i \in 1..Len(a_events) : a_events[i] \in PipelineCalls

\* C18: in a build, deploy or run command without --no-auto-setup, the
\* bootstrapper is called at most once and before every call that builds,
\* deploys or tests, and however it ends (success, error, panic of its task)
\* the command goes on to its pipeline: it never exits between the
\* bootstrapper and the first pipeline call.
C18_BootstrapFirstNeverFatal ==
  /\ a_boots <= 1
  /\ a_flags.no_auto_setup => a_boots = 0
  /\ (~a_flags.no_auto_setup /\ PipelineStarted) =>
       /\ a_boots = 1
       /\ a_events[1] = "run_auto_setup"
  /\ a_boot # "none" =>
       /\ a_events[1] = "run_auto_setup"
       /\ \A i \in 2..Len(a_events) : a_events[i] \in PipelineCalls
       /\ a_pc = "exited" => Len(a_events) >= 2
       /\ a_pc # "exited" => ENABLED MainNext

\* The bootstrapper's task panicked, and the run command still deployed every
\* component and ran the tests.
C18_Witness ==
  /\ a_cmd = "run"
  /\ a_boot = "panic"
  /\ a_pc = "exited"
  /\ a_n = MaxSpecs
  /\ a_events = <<"run_auto_setup", "load_config">>
                  \o [i \in 1..MaxSpecs |-> "run_deploy"] \o <<"run_tests">>

\* ------------------------------------------------- ensure_operator_installed: properties

\* C21: step 4 issues the Subscription create only when neither TektonConfig
\* "config" nor the Subscription exists, and when either exists it issues no
\* create and returns success.
C21_CreateOnlyWhenBothAbsent ==
  [][(s_pc = "operator" /\ s_pc' = "ret") =>
       LET created == Len(s_writes') > Len(s_writes) IN
         /\ created => ~tc_exists /\ ~sub_exists
         /\ (tc_exists \/ sub_exists) => ~created /\ s_ret' = "ok"]_vars

\* What the code guarantees: the create follows two reads that both failed,
\* and a read that succeeds ends the step with success and without a create.
C21_CreateOnlyWhenBothUnreadable ==
  [][(s_pc = "operator" /\ s_pc' = "ret") =>
       LET created == Len(s_writes') > Len(s_writes) IN
         /\ (~tc_exists /\ ~sub_exists) => created
         /\ ~created => s_ret' = "ok" /\ (tc_exists \/ sub_exists)
         /\ created => s_writes' = Append(s_writes, "create_subscription")]_vars

\* ------------------------------------------------- ensure_tektonconfig: create attempts

\* C22: step 6 issues no create when TektonConfig "config" already exists at
\* its existence check (and otherwise makes at most tc_max_retries create
\* attempts, stops at the first that succeeds, sleeps only after a failed
\* attempt that is not the last, and fails after the last one fails).
C22_NoCreateWhenExists ==
  [][(t_pc = "check_exists" /\ tc_exists) => t_pc' # "create"]_vars

\* The part of C22 about the retry loop, which the code keeps: at most
\* tc_max_retries creates, one error per failed create, one sleep per failed
\* create that is not the last, success exactly at a create that went through.
C22_BoundedCreateAttempts ==
  /\ t_creates <= tc_max_retries
  /\ Len(t_errors) <= t_creates
  /\ Len(t_delays) <= Len(t_errors)
  /\ Len(t_delays) <= tc_max_retries - 1
  /\ t_pc = "create" => t_creates = t_attempt - 1 /\ Len(t_delays) = t_creates
  /\ (t_result = "ok" /\ t_creates > 0) =>
       Len(t_errors) = t_creates - 1 /\ Len(t_delays) = t_creates - 1
  /\ t_result = "err" =>
       /\ t_creates = tc_max_retries
       /\ Len(t_errors) = tc_max_retries
       /\ Len(t_delays) = tc_max_retries - 1

\* ================================================= deploy/operator.rs: find_operator_deployment

\* Most candidates whose probe answers anything but "not found".
MaxAnswering == 2

OPERATOR_NAMESPACES == <<"openshift-pipelines", "openshift-operators", "tekton-pipelines">>

OPERATOR_DEPLOYMENT_NAMES == <<"openshift-pipelines-operator", "tekton-operator">>

OPERATOR_LABEL_SELECTORS ==
  <<"app.kubernetes.io/name=openshift-pipelines-operator", "app=tekton-operator">>

\* The iterations of `for ns in OPERATOR_NAMESPACES { for key in keys { .. } }`,
\* in the order they are executed.
NestedLoop(kind, keys) ==
  [i \in 1..(Len(OPERATOR_NAMESPACES) * Len(keys)) |->
     [kind |-> kind,
      ns |-> ((i - 1) \div Len(keys)) + 1,
      key |-> ((i - 1) % Len(keys)) + 1]]

\* Bug variant: the label selectors are tried before the names.
Candidates_LabelsFirst ==
  NestedLoop("label", OPERATOR_LABEL_SELECTORS) \o NestedLoop("name", OPERATOR_DEPLOYMENT_NAMES)

\* Lines 64-73 then 76-89: the loop over the names, then the loop over the
\* label selectors.
Candidates ==
  NestedLoop("name", OPERATOR_DEPLOYMENT_NAMES) \o NestedLoop("label", OPERATOR_LABEL_SELECTORS)

\* What a probe can answer: a deployment ("match"), no deployment (404 for a
\* get, an empty list for a list), or an API error.
Answers == {"match", "none", "error"}

\* Lines 67-71: `if let Ok(dep) = rt.block_on(api.get(name))` returns on a
\* deployment and goes on after a 404 or any other error.
NameProbe(answer) == IF answer = "match" THEN "ok" ELSE "next"

\* Lines 79-87: `api.list(&lp) ... ?` returns the error of a failed list,
\* returns on a first item and goes on after an empty list.
LabelProbe(answer) ==
  CASE answer = "match" -> "ok"
    [] answer = "error" -> "err_list"
    [] OTHER -> "next"

FindInit ==
  /\ BatchIdle
  /\ InternalIdle
  /\ RefIdle
  /\ VersionIdle
  /\ SyncIdle
  /\ RefsIdle
  /\ InvIdle
  /\ MainIdle
  /\ WaitIdle
  /\ TcIdle
  /\ PatchIdle
  /\ BuildIdle
  /\ K8sIdle
  /\ DeployIdle
  /\ SetupIdle
  /\ f_answers \in [1..Len(Candidates) -> Answers]
  /\ Cardinality({i \in 1..Len(Candidates) : f_answers[i] # "none"}) <= MaxAnswering
  /\ f_pc = 1
  /\ f_probed = <<>>
  /\ f_result = "none"
  /\ f_found = 0

\* What one probe leads to.
FindStep(verdict) ==
  /\ f_probed' = Append(f_probed, f_pc)
  /\ IF verdict = "next"
       THEN /\ f_pc' = f_pc + 1
            /\ UNCHANGED <<f_result, f_found>>
       ELSE /\ f_result' = verdict
            /\ f_found' = IF verdict = "ok" THEN f_pc ELSE 0
            /\ UNCHANGED f_pc
  /\ UNCHANGED f_answers
  /\ UNCHANGED nonFindVars

\* Lines 64-73: one iteration of the loop over the deployment names.
FindByName ==
  /\ f_result = "none"
  /\ f_pc \in 1..Len(Candidates)
  /\ Candidates[f_pc].kind = "name"
  /\ FindStep(NameProbe(f_answers[f_pc]))

\* Lines 76-89: one iteration of the loop over the label selectors.
FindByLabel ==
  /\ f_result = "none"
  /\ f_pc \in 1..Len(Candidates)
  /\ Candidates[f_pc].kind = "label"
  /\ FindStep(LabelProbe(f_answers[f_pc]))

\* Lines 91-96: bail! after both loops.
FindBail ==
  /\ f_result = "none"
  /\ f_pc > Len(Candidates)
  /\ f_result' = "not_found"
  /\ UNCHANGED <<f_answers, f_pc, f_probed, f_found>>
  /\ UNCHANGED nonFindVars

FindNext == FindByName \/ FindByLabel \/ FindBail

SpecFind == FindInit /\ [][FindNext]_vars

\* ------------------------------------------------- find_operator_deployment: properties

\* Position of a candidate in the documented priority order: names before
\* label selectors, then the namespace in list order, then the name or selector.
Priority(c) == (IF c.kind = "name" THEN 0 ELSE 100) + 10 * c.ns + c.key

\* The candidates whose probe answers with a deployment.
Matching == {i \in 1..Len(Candidates) : f_answers[i] = "match"}

\* C23: the pair returned is the first match in priority order. Every name
\* pair is probed, namespace-major, before any label selector; a name match
\* in any namespace is returned whatever the label selectors would answer;
\* a label match is returned only when no name pair matches and it is the
\* first (namespace, selector) in list order that matches.
C23_FirstMatchInPriorityOrder ==
  /\ \A i, j \in DOMAIN f_probed :
       i < j => Priority(Candidates[f_probed[i]]) < Priority(Candidates[f_probed[j]])
  /\ \A i \in DOMAIN f_probed :
       Candidates[f_probed[i]].kind = "label" =>
         \A n \in 1..Len(Candidates) :
           Candidates[n].kind = "name" => \E k \in 1..(i - 1) : f_probed[k] = n
  /\ (\E n \in Matching : Candidates[n].kind = "name") =>
       /\ f_result \in {"none", "ok"}
       /\ \A i \in DOMAIN f_probed : Candidates[f_probed[i]].kind = "name"
  /\ f_result = "ok" =>
       /\ f_found \in Matching
       /\ \A m \in Matching :
            Priority(Candidates[f_found]) <= Priority(Candidates[m])
  /\ f_result # "ok" => f_found = 0

\* C23 witness: a name match in the last namespace was returned although a
\* label selector matches in the first namespace.
C23_Witness ==
  /\ f_result = "ok"
  /\ Candidates[f_found].kind = "name"
  /\ Candidates[f_found].ns = Len(OPERATOR_NAMESPACES)
  /\ \E m \in Matching : Candidates[m].kind = "label" /\ Candidates[m].ns = 1

\* C24: the search fails only if no candidate matches: whenever at least one
\* candidate's probe answers with a deployment, a match is returned, whatever
\* errors the other probes produce.
C24_FailsOnlyIfNothingMatches ==
  (f_result # "none" /\ Matching # {}) => f_result = "ok"

\* What the code guarantees instead: "not found" is returned only after all
\* candidates were probed without a match or a failed list, and the other
\* failure is the error of a label list reached before any match.
C24_FailureCauses ==
  /\ f_result = "not_found" =>
       /\ Matching = {}
       /\ Len(f_probed) = Len(Candidates)
       /\ \A i \in 1..Len(Candidates) :
            Candidates[i].kind = "label" => f_answers[i] = "none"
  /\ f_result = "err_list" =>
       LET last == f_probed[Len(f_probed)] IN
         /\ Candidates[last].kind = "label"
         /\ f_answers[last] = "error"
         /\ \A m \in Matching : Priority(Candidates[m]) > Priority(Candidates[last])

\* ================================================= deploy/operator.rs: delete_installer_sets

\* Strings are written as sequences over an alphabet of word pieces none of
\* which is a prefix of another, so starts_with on strings is the prefix
\* relation on these sequences.

\* prefix_override = None.
NoOverride == <<>>

\* name.starts_with(p)
StartsWith(name, p) == Len(p) <= Len(name) /\ SubSeq(name, 1, Len(p)) = p

\* Line 341: prefix_override.unwrap_or(component)
EffectiveSlug(component, override) ==
  IF override # NoOverride THEN override ELSE component

\* Bug variant: every set whose name starts with the slug is taken.
Prefixes_BareSlug(prefix) == {prefix}

\* Lines 342-347: the four prefixes.
Prefixes(prefix) ==
  {prefix \o <<"-", "main", "-", "deployment", "-">>,
   prefix \o <<"-", "main", "-", "static", "-">>,
   prefix \o <<"-", "post", "-">>,
   prefix \o <<"-", "pre", "-">>}

\* Bug variant: the first failed deletion ends the loop.
NextItem_StopsOnFailure(pc, len, delete_ok) == IF delete_ok THEN pc + 1 ELSE len + 1

\* Lines 350, 359-361: the Err arm prints a warning and the loop goes on.
NextItem(pc, len, delete_ok) == pc + 1

\* Line 352: prefixes.iter().any(|p| name.starts_with(p))
MatchesPrefix(name, component, override) ==
  \E p \in Prefixes(EffectiveSlug(component, override)) : StartsWith(name, p)

\* The components deployed and the overrides their config may carry.
InvComponents == {<<"pipeline">>, <<"manual", "-", "approval", "-", "gate">>}
InvOverrides == {NoOverride, <<"manualapprovalgate">>}

\* Names of installer sets the operator may hold.
SetNames ==
  {<<"pipeline", "-", "main", "-", "deployment", "-", "abcd">>,
   <<"pipeline", "-", "main", "-", "static", "-", "abcd">>,
   <<"pipeline", "-", "post", "-", "abcd">>,
   <<"pipeline", "-", "pre", "-", "abcd">>,
   <<"pipeline", "somethingelse", "-", "abcd">>,
   <<"pipeline", "-", "main", "-", "abcd">>,
   <<"pipeline", "-", "pre">>,
   <<"chains", "-", "main", "-", "deployment", "-", "abcd">>,
   <<"manualapprovalgate", "-", "main", "-", "deployment", "-", "abcd">>,
   <<"manual", "-", "approval", "-", "gate", "-", "post", "-", "abcd">>}

\* The lists the API can return: distinct names, in any order.
SetLists ==
  {q \in UNION {[1..k -> SetNames] : k \in 0..MaxSets} :
     \A i, j \in DOMAIN q : i # j => q[i] # q[j]}

InvInit ==
  /\ BatchIdle
  /\ InternalIdle
  /\ RefIdle
  /\ VersionIdle
  /\ SyncIdle
  /\ RefsIdle
  /\ MainIdle
  /\ WaitIdle
  /\ TcIdle
  /\ PatchIdle
  /\ BuildIdle
  /\ K8sIdle
  /\ DeployIdle
  /\ SetupIdle
  /\ FindIdle
  /\ i_component \in InvComponents
  /\ i_override \in InvOverrides
  /\ i_items \in SetLists
  /\ i_live = Range(i_items)
  /\ i_pc = 0
  /\ deleted = 0
  /\ i_attempts = <<>>
  /\ i_failures = <<>>
  /\ i_result = "none"

\* Lines 333-337: the list call; `?` returns its error.
InvList ==
  /\ i_result = "none"
  /\ i_pc = 0
  /\ \E list_ok \in BOOLEAN :
       IF list_ok
         THEN i_pc' = 1 /\ UNCHANGED i_result
         ELSE i_result' = "err_list" /\ UNCHANGED i_pc
  /\ UNCHANGED <<i_component, i_override, i_items, i_live, deleted, i_attempts, i_failures>>
  /\ UNCHANGED nonInvVars

\* Lines 350-352: an item whose name matches no prefix is passed over.
InvSkip ==
  /\ i_result = "none"
  /\ i_pc \in 1..Len(i_items)
  /\ ~MatchesPrefix(i_items[i_pc], i_component, i_override)
  /\ i_pc' = i_pc + 1
  /\ UNCHANGED <<i_component, i_override, i_items, i_live, deleted, i_attempts, i_failures,
                 i_result>>
  /\ UNCHANGED nonInvVars

\* Lines 352-362: an item whose name matches is deleted; a failure is printed
\* as a warning.
InvDelete ==
  /\ i_result = "none"
  /\ i_pc \in 1..Len(i_items)
  /\ MatchesPrefix(i_items[i_pc], i_component, i_override)
  /\ i_attempts' = Append(i_attempts, i_items[i_pc])
  /\ \E delete_ok \in BOOLEAN :
       /\ IF delete_ok
            THEN /\ i_live' = i_live \ {i_items[i_pc]}
                 /\ deleted' = deleted + 1
                 /\ UNCHANGED i_failures
            ELSE /\ i_failures' = Append(i_failures, i_items[i_pc])
                 /\ UNCHANGED <<i_live, deleted>>
       /\ i_pc' = NextItem(i_pc, Len(i_items), delete_ok)
  /\ UNCHANGED <<i_component, i_override, i_items, i_result>>
  /\ UNCHANGED nonInvVars

\* Line 367: Ok(deleted)
InvReturn ==
  /\ i_result = "none"
  /\ i_pc > Len(i_items)
  /\ i_result' = "ok"
  /\ UNCHANGED <<i_component, i_override, i_items, i_live, i_pc, deleted, i_attempts,
                 i_failures>>
  /\ UNCHANGED nonInvVars

InvNext == InvList \/ InvSkip \/ InvDelete \/ InvReturn

SpecInv == InvInit /\ [][InvNext]_vars

\* ------------------------------------------------- delete_installer_sets: properties

\* The slug the prefixes are to be computed from.
Slug == IF i_override = NoOverride THEN i_component ELSE i_override

\* The name is the slug followed by one of -main-deployment-, -main-static-,
\* -post-, -pre- and anything.
HasSetPrefix(name) ==
  /\ StartsWith(name, Slug \o <<"-">>)
  /\ LET rest == SubSeq(name, Len(Slug) + 2, Len(name)) IN
       \/ StartsWith(rest, <<"main", "-", "deployment", "-">>)
       \/ StartsWith(rest, <<"main", "-", "static", "-">>)
       \/ StartsWith(rest, <<"post", "-">>)
       \/ StartsWith(rest, <<"pre", "-">>)

\* The items the loop has passed.
Visited == {i_items[k] : k \in 1..(IF i_pc = 0 THEN 0 ELSE i_pc - 1)}

\* C25: a deletion is attempted for an installer set if and only if its name
\* starts with one of the four prefixes of the effective slug; every other
\* set is retained.
C25_DeletesExactlyPrefixed ==
  /\ \A n \in Visited : (n \in Range(i_attempts)) <=> HasSetPrefix(n)
  /\ Range(i_attempts) \subseteq Visited
  /\ \A n \in Range(i_items) : ~HasSetPrefix(n) => n \in i_live

\* C25 witness: for component pipeline, pipeline-main-deployment-abcd was
\* deleted and pipelinesomethingelse-abcd, listed with it, is retained.
C25_Witness ==
  /\ i_result = "ok"
  /\ i_component = <<"pipeline">>
  /\ i_override = NoOverride
  /\ <<"pipeline", "-", "main", "-", "deployment", "-", "abcd">> \in Range(i_items) \ i_live
  /\ <<"pipeline", "somethingelse", "-", "abcd">> \in i_live

\* C26: each matching set's deletion is attempted exactly once; a failed
\* deletion neither stops the remaining deletions nor fails the operation;
\* the count returned is the number of deletions that succeeded.
C26_IndependentDeletionsCounted ==
  /\ \A i, j \in DOMAIN i_attempts : i # j => i_attempts[i] # i_attempts[j]
  /\ deleted = Len(i_attempts) - Len(i_failures)
  /\ deleted = Cardinality(Range(i_items) \ i_live)
  /\ Range(i_failures) \subseteq i_live
  /\ i_result = "ok" =>
       /\ i_pc = Len(i_items) + 1
       /\ Range(i_attempts) = {n \in Range(i_items) : HasSetPrefix(n)}
  /\ i_result = "err_list" => i_attempts = <<>>
  /\ (i_result = "none" /\ i_pc > 0) => ENABLED InvNext

\* C26 witness: the first of three matching sets could not be deleted, the
\* other two were, and 2 was returned.
C26_Witness ==
  /\ i_result = "ok"
  /\ Len(i_attempts) = 3
  /\ i_failures = <<i_attempts[1]>>
  /\ deleted = 2

\* ------------------------------------------------- run_deploy: order of the steps

\* Position of the first occurrence of x in q, Len(q) + 1 if there is none.
RECURSIVE IndexOf(_, _)
IndexOf(q, x) ==
  IF q = <<>> THEN 1
  ELSE IF Head(q) = x THEN 1
  ELSE 1 + IndexOf(Tail(q), x)

\* The steps the claim names, in the order it names them.
NamedOrder == <<"verify", "mapping", "locate", "patch", "rbac", "invalidate", "wait">>

\* C27: within one run_deploy the steps start in the order verification,
\* mapping, locate, patch, image-pull RBAC, invalidation, wait; a step starts
\* only after every earlier step has succeeded; installer sets are deleted
\* only after the deployment patch was written; and when verification,
\* mapping or locate fails nothing was written to the cluster.
C27_StepsInOrderWritesAfterSuccess ==
  /\ \A i, j \in DOMAIN NamedOrder :
       (i < j /\ NamedOrder[j] \in Range(d_steps)) =>
         /\ NamedOrder[i] \in Range(d_steps)
         /\ IndexOf(d_steps, NamedOrder[i]) < IndexOf(d_steps, NamedOrder[j])
         /\ d_failed # NamedOrder[i]
  /\ \A i, j \in DOMAIN d_steps : i # j => d_steps[i] # d_steps[j]
  /\ d_result \in {"err", "panic"} => d_pc >= DeployReturned
  /\ d_failed # "" => d_steps[Len(d_steps)] = d_failed
  /\ "delete_installer_set" \in Range(d_mutations) =>
       /\ IndexOf(d_mutations, "replace_deployment")
            < IndexOf(d_mutations, "delete_installer_set")
       /\ IndexOf(d_steps, "patch") < IndexOf(d_steps, "invalidate")
       /\ "invalidate" \in Range(d_steps)
       /\ d_failed # "patch"
  /\ "create_rolebinding" \in Range(d_mutations) =>
       IndexOf(d_mutations, "replace_deployment") < IndexOf(d_mutations, "create_rolebinding")
  /\ d_mutations # <<>> => "patch" \in Range(d_steps) /\ d_failed # "patch"
  /\ d_failed \in {"connect", "verify", "load_config", "mapping", "locate"} =>
       d_mutations = <<>> /\ d_writes = 0

\* C27 witness: the patch was written, the RoleBinding created and two
\* installer sets deleted, in that order, in a run that completed.
C27_Witness ==
  /\ d_result = "ok"
  /\ d_mutations = <<"replace_deployment", "create_rolebinding",
                     "delete_installer_set", "delete_installer_set">>

\* ------------------------------------------------- run_deploy_and_test: sequential deploys

\* C28: components are deployed one after the other: at most one run_deploy
\* is in progress at any time, the deploy of a later component starts only
\* after the deploys of the earlier ones have returned, and the reads and
\* writes of the operator Deployment made for different components never
\* interleave.
C28_DeploysSequential ==
  /\ Cardinality(Running(a_tasks)) <= 1
  /\ \A i, j \in DOMAIN a_tasks :
       (i < j /\ a_tasks[j] # "idle") => a_tasks[i] \in {"idle", "done"}
  /\ \A i \in DOMAIN a_tasks : a_tasks[i] # "idle" => i <= a_i
  /\ \A k, l \in DOMAIN a_log : k < l => a_log[k][1] <= a_log[l][1]
  /\ \A k \in DOMAIN a_log :
       a_log[k][2] = "replace" => k > 1 /\ a_log[k - 1] = <<a_log[k][1], "get">>

\* C28 witness: every component's Deployment patch was read and written, one
\* component after the other.
C28_Witness ==
  /\ a_n = MaxSpecs
  /\ a_pc = "exited"
  /\ Len(a_log) = 2 * MaxSpecs
  /\ \A i \in 1..MaxSpecs :
       a_log[2 * i - 1] = <<i, "get">> /\ a_log[2 * i] = <<i, "replace">>

\* ================================================= the joins against comp.images

\* The pullspec recorded for a built image.
PullSpec(short_name) == FullRef(short_name)

\* build.rs, lines 121-132: every ref whose short name has a key is inserted
\* into the HashMap, a later insert replacing an earlier one under the same
\* key; a ref without key is passed over.
RefsMapping(images, refs) ==
  LET mapped == {i \in DOMAIN refs : refs[i][1] \in DOMAIN images}
      keys == {images[refs[i][1]] : i \in mapped}
      last(k) == CHOOSE i \in mapped :
                   /\ images[refs[i][1]] = k
                   /\ \A j \in mapped : images[refs[j][1]] = k => j <= i
  IN [k \in keys |-> refs[last(k)][2]]

\* build.rs, lines 128-130: the short names the warning is printed for.
RefsWarned(images, refs) == {refs[i][1] : i \in {j \in DOMAIN refs : refs[j][1] \notin DOMAIN images}}

\* The short names of the refs, in order.
ShortNames(refs) == [i \in DOMAIN refs |-> refs[i][1]]

RefsInit ==
  /\ BatchIdle
  /\ InternalIdle
  /\ RefIdle
  /\ VersionIdle
  /\ SyncIdle
  /\ MainIdle
  /\ WaitIdle
  /\ TcIdle
  /\ PatchIdle
  /\ BuildIdle
  /\ K8sIdle
  /\ DeployIdle
  /\ SetupIdle
  /\ FindIdle
  /\ InvIdle
  /\ r_images \in ImageConfigs
  /\ \E names \in SeqsUpTo(ImageNames, MaxBuilt) :
       r_refs = [i \in DOMAIN names |-> <<names[i], PullSpec(names[i])>>]
  /\ r_result = [state |-> "none", map |-> <<>>]
  /\ r_warned = {}
  /\ r_mappings = [state |-> "none", map |-> <<>>]

\* build.rs, lines 120-134: the mapping step of run_build_with_refs.
MapRefs ==
  /\ r_result.state = "none"
  /\ r_result' = [state |-> "ok", map |-> RefsMapping(r_images, r_refs)]
  /\ r_warned' = RefsWarned(r_images, r_refs)
  /\ UNCHANGED <<r_images, r_refs, r_mappings>>
  /\ UNCHANGED nonRefsVars

\* mapping.rs, lines 20-39: build_image_mappings on the same built names.
MapBuilt ==
  /\ r_mappings.state = "none"
  /\ r_mappings' =
       IF MappingFails(r_images, ShortNames(r_refs))
         THEN [state |-> "err", map |-> <<>>]
         ELSE [state |-> "ok", map |-> BuildImageMappings(r_images, ShortNames(r_refs))]
  /\ UNCHANGED <<r_images, r_refs, r_result, r_warned>>
  /\ UNCHANGED nonRefsVars

RefsNext == MapRefs \/ MapBuilt

SpecRefs == RefsInit /\ [][RefsNext]_vars

\* ------------------------------------------------- the joins: properties

\* A built image has no declared key.
SomeUndeclared == \E i \in DOMAIN r_refs : r_refs[i][1] \notin DOMAIN r_images

\* C29: wherever built images are joined against the component's name-to-key
\* map, a built image without declared key makes the construction fail and no
\* partial mapping is returned.
C29_MappingAllOrNothing ==
  SomeUndeclared =>
    /\ r_mappings.state # "none" => r_mappings.state = "err" /\ r_mappings.map = <<>>
    /\ r_result.state # "none" => r_result.state = "err" /\ r_result.map = <<>>

\* What the code does: build_image_mappings is all-or-nothing, while the
\* mapping step of run_build_with_refs always succeeds, returns the entries of
\* the images that have a key and warns about the others.
C29_OnlyBuildImageMappingsFails ==
  /\ r_mappings.state # "none" =>
       /\ r_mappings.state = "err" <=> (SomeUndeclared \/ r_refs = <<>>)
       /\ r_mappings.state = "ok" => Len(r_mappings.map) = Len(r_refs)
       /\ r_mappings.state = "err" => r_mappings.map = <<>>
  /\ r_result.state # "none" =>
       /\ r_result.state = "ok"
       /\ DOMAIN r_result.map =
            {r_images[r_refs[i][1]] : i \in {j \in DOMAIN r_refs : r_refs[j][1] \in DOMAIN r_images}}
       /\ r_warned # {} <=> SomeUndeclared

\* ================================================= registry.rs: sync_docker_config

Hosts == {"default-route.apps.example", "quay.io", "docker.io"}
Credentials == {"token-a", "token-b"}

\* The "auths" objects: a credential for some of the hosts.
AuthMaps == UNION {[hs -> Credentials] : hs \in SUBSET Hosts}

\* No file.
NoFile == [kind |-> "absent", has_auths |-> FALSE, auths |-> <<>>, other |-> FALSE]

\* A file that is not JSON.
InvalidFile == [kind |-> "invalid", has_auths |-> FALSE, auths |-> <<>>, other |-> FALSE]

\* What a credential file can hold: nothing parseable, or a JSON value with
\* or without an "auths" object, and with or without other keys (credsStore,
\* credHelpers).
FileContents ==
  {NoFile, InvalidFile}
    \cup {[kind |-> "json", has_auths |-> FALSE, auths |-> <<>>, other |-> TRUE]}
    \cup {[kind |-> "json", has_auths |-> TRUE, auths |-> a, other |-> o] :
            a \in AuthMaps, o \in BOOLEAN}

\* Bug variant: the destination's auths are replaced by the source's.
MergeAuths_ReplaceAll(dst_auths, src_auths) == src_auths

\* Lines 101-103: dst_auths.insert(k, v) for every entry of the source.
MergeAuths(dst_auths, src_auths) ==
  [h \in DOMAIN dst_auths \cup DOMAIN src_auths |->
     IF h \in DOMAIN src_auths THEN src_auths[h] ELSE dst_auths[h]]

\* Lines 58-112: the content of ~/.docker/config.json after the call.
SyncDockerConfig(home_set, src, src_readable, dst, dst_readable, write_ok) ==
  IF ~home_set \/ src.kind = "absent" \/ ~src_readable THEN dst
  ELSE IF dst.kind = "absent" THEN (IF write_ok THEN src ELSE dst)
  ELSE IF src.kind = "invalid" \/ ~dst_readable THEN dst
  ELSE IF dst.kind = "invalid" THEN (IF write_ok THEN src ELSE dst)
  ELSE IF ~write_ok THEN dst
  ELSE IF src.has_auths /\ dst.has_auths
    THEN [dst EXCEPT !.auths = MergeAuths(dst.auths, src.auths)]
  ELSE dst

SyncInit ==
  /\ BatchIdle
  /\ InternalIdle
  /\ RefIdle
  /\ VersionIdle
  /\ MainIdle
  /\ WaitIdle
  /\ TcIdle
  /\ PatchIdle
  /\ BuildIdle
  /\ K8sIdle
  /\ DeployIdle
  /\ SetupIdle
  /\ FindIdle
  /\ InvIdle
  /\ RefsIdle
  /\ y_src \in FileContents
  /\ y_dst \in FileContents
  /\ y_prior = y_dst
  /\ y_pc = "call"

\* registry.rs, line 48: registry_login calls sync_docker_config.
Sync ==
  /\ y_pc = "call"
  /\ \E home_set \in BOOLEAN, src_readable \in BOOLEAN, dst_readable \in BOOLEAN,
        write_ok \in BOOLEAN :
       y_dst' = SyncDockerConfig(home_set, y_src, src_readable, y_dst, dst_readable, write_ok)
  /\ y_pc' = "done"
  /\ UNCHANGED <<y_src, y_prior>>
  /\ UNCHANGED nonSyncVars

\* oc registry login rewrites auth.json before the next sync.
Login ==
  /\ y_pc = "done"
  /\ \E h \in Hosts, c \in Credentials :
       y_src' = IF y_src.kind = "json" /\ y_src.has_auths
                  THEN [y_src EXCEPT !.auths = MergeAuths(y_src.auths, [x \in {h} |-> c])]
                  ELSE [kind |-> "json", has_auths |-> TRUE, auths |-> [x \in {h} |-> c],
                        other |-> FALSE]
  /\ y_prior' = y_dst
  /\ y_pc' = "call"
  /\ UNCHANGED y_dst
  /\ UNCHANGED nonSyncVars

SyncNext == Sync \/ Login

SpecSync == SyncInit /\ [][SyncNext]_vars

\* ------------------------------------------------- sync_docker_config: properties

\* The host entries a credential store holds.
HostEntries(f) == IF f.kind = "json" /\ f.has_auths THEN f.auths ELSE <<>>

SyncAllOk(src, dst) == SyncDockerConfig(TRUE, src, TRUE, dst, TRUE, TRUE)

\* C31: a sync whose file operations all succeed leaves every host of the
\* source in an existing destination with the source's credential, also when
\* the destination had no "auths" object; an absent destination becomes a
\* copy of the source.
C31_SourceHostsReachDestination ==
  [][(/\ y_pc = "call"
      /\ y_src.kind = "json"
      /\ y_src.has_auths
      /\ y_dst' = SyncAllOk(y_src, y_dst))
       => /\ y_dst.kind = "absent" => y_dst' = y_src
          /\ y_dst.kind # "absent" =>
               \A h \in DOMAIN y_src.auths :
                 /\ h \in DOMAIN HostEntries(y_dst')
                 /\ HostEntries(y_dst')[h] = y_src.auths[h]]_vars

\* What the code does guarantee: the source's hosts reach the destination
\* when it is absent, is not JSON, or has an "auths" object; a JSON
\* destination without "auths" is written back as it was.
C31_MergedOnlyIntoExistingAuths ==
  [][(/\ y_pc = "call"
      /\ y_src.kind = "json"
      /\ y_src.has_auths
      /\ y_dst' = SyncAllOk(y_src, y_dst))
       => /\ y_dst.kind \in {"absent", "invalid"} => y_dst' = y_src
          /\ (y_dst.kind = "json" /\ y_dst.has_auths) =>
               \A h \in DOMAIN y_src.auths :
                 /\ h \in DOMAIN HostEntries(y_dst')
                 /\ HostEntries(y_dst')[h] = y_src.auths[h]
          /\ (y_dst.kind = "json" /\ ~y_dst.has_auths) => y_dst' = y_dst]_vars

\* The stages of a task in which it touches the file system or runs a
\* command: before tempfile::tempdir, during the clone, during the build.
IoStages == {"queued", "cloning", "building"}

\* C32: a spec whose name the configuration lacks never enters a stage that
\* creates the workspace, clones or builds; its task ends with the failure
\* "component not in config"; and when the coordinator returns, every
\* configured sibling whose own pipeline did not fail has its success.
C32_UnconfiguredFailsWithoutIo ==
  /\ \A i \in DOMAIN task :
       specs[i] \notin ConfigNames =>
         /\ task[i] \notin IoStages
         /\ task[i] = "finished" => outcome[i] = Err(specs[i], "component not in config")
  /\ m_pc = "collect" =>
       \A i \in DOMAIN specs :
         /\ specs[i] \notin ConfigNames =>
              \E k \in DOMAIN results : results[k] = Err(specs[i], "component not in config")
         /\ (specs[i] \in ConfigNames /\ fault[i] = "none") =>
              \E k \in DOMAIN results :
                results[k] = Ok(specs[i], BuildOutput(ComponentConfig(specs[i])))

\* C32 witness: the coordinator has returned for an unconfigured spec
\* followed by a configured one; the first failed, the second was built.
C32_Witness ==
  /\ m_pc = "collect"
  /\ Len(specs) = 2
  /\ specs[1] \notin ConfigNames
  /\ specs[2] \in ConfigNames
  /\ \E k \in DOMAIN results : results[k] = Err(specs[1], "component not in config")
  /\ \E k \in DOMAIN results : results[k].name = specs[2] /\ results[k].ok

\* ------------------------------------------------- patch: failures and interleavings

\* The Deployment that was read has no container named LIFECYCLE.
NoLifecycleContainer(dep) == \A i \in DOMAIN dep.containers : dep.containers[i].name # LIFECYCLE

\* C33: the patch ends with the missing-container failure exactly when the
\* Deployment it read has no lifecycle container; then, as after a failed
\* read, no replace was issued by this call and the live Deployment is the
\* one that was there before it; the live Deployment changes only in a
\* replace step.
C33_MissingContainerFailsWithoutWrite ==
  /\ [](/\ (p_pc = "done" /\ p_read # NoDeployment /\ NoLifecycleContainer(p_read))
             <=> p_result = "err_no_container"
        /\ p_result = "err_no_container" => (p_writes = 0 /\ live_dep = p_read)
        /\ p_result = "err_get" =>
             /\ p_writes = p_round - 1
             /\ p_round = 2 => live_dep = p_first)
  /\ [][live_dep' # live_dep => (p_pc = "replace" /\ p_writes' = p_writes + 1)]_vars

\* C33 witness: the patch of a Deployment that only has the sidecar failed,
\* and nothing was written.
C33_Witness ==
  /\ p_pc = "done"
  /\ p_result = "err_no_container"
  /\ live_dep = [containers |-> <<Sidecar>>]
  /\ mappings # <<>>
  /\ p_writes = 0

\* ================================================= operator.rs: the patch against concurrent edits

\* Highest resourceVersion an edit by another actor may produce.
MaxVersion == 3

\* A variable another actor (an administrator, OLM) sets on a container.
ExternalVar == [name |-> "EXTERNAL", value |-> "set-by-other-actor", value_from |-> None]

\* The container after the other actor's edit: the variable is added, or
\* removed if it was there.
EditContainer(c) ==
  LET NotExternal(e) == e.name # ExternalVar.name
  IN IF \E k \in DOMAIN c.env : c.env[k] = ExternalVar
       THEN [c EXCEPT !.env = SelectSeq(c.env, NotExternal)]
       ELSE [c EXCEPT !.has_env = TRUE, !.env = Append(c.env, ExternalVar)]

\* Another actor replaces the live Deployment while the patch holds the
\* object it read (between api.get, line 119, and api.replace, line 175);
\* the API server stores the edit under a new resourceVersion.
ExternalEdit ==
  /\ p_pc \in {"merge", "replace"}
  /\ live_rv < MaxVersion
  /\ \E i \in DOMAIN live_dep.containers :
       live_dep' = [containers |->
                      [live_dep.containers EXCEPT ![i] = EditContainer(live_dep.containers[i])]]
  /\ live_rv' = live_rv + 1
  /\ UNCHANGED <<cfg_images, built_images, mappings, p_pc, p_round, p_dep, p_result, p_read,
                 p_first, p_writes, p_rv>>
  /\ UNCHANGED nonPatchVars

RaceNext == PatchNext \/ ExternalEdit

SpecRace == PatchInit /\ [][RaceNext]_vars

MaxRefLen == 4

\* Characters of a ref: those of "pr/", a digit and a letter.
RefChars == {"p", "r", "/", "7", "m"}

\* The refs a user can give: every string of at most MaxRefLen characters.
UserRefs == UNION {[1..n -> RefChars] : n \in 0..MaxRefLen}

PR_PREFIX == <<"p", "r", "/">>
REFS_PULL == <<"r", "e", "f", "s", "/", "p", "u", "l", "l", "/">>
HEAD_SUFFIX == <<"/", "h", "e", "a", "d">>

\* user_ref.strip_prefix("pr/"): the rest of the string after the prefix.
StripPrefix(s, p) == SubSeq(s, Len(p) + 1, Len(s))

\* Bug variant: the pull-request ref keeps its "pr/" prefix.
ResolveGitRef_KeepsPrefix(user_ref) ==
  IF StartsWith(user_ref, PR_PREFIX) THEN user_ref \o HEAD_SUFFIX ELSE user_ref

\* Lines 98-104: format!("refs/pull/{}/head", pr_num) for a ref that starts
\* with "pr/", the ref itself otherwise.
ResolveGitRef(user_ref) ==
  IF StartsWith(user_ref, PR_PREFIX)
    THEN REFS_PULL \o StripPrefix(user_ref, PR_PREFIX) \o HEAD_SUFFIX
    ELSE user_ref

RefInit ==
  /\ BatchIdle
  /\ InternalIdle
  /\ SyncIdle
  /\ RefsIdle
  /\ InvIdle
  /\ FindIdle
  /\ MainIdle
  /\ WaitIdle
  /\ TcIdle
  /\ PatchIdle
  /\ BuildIdle
  /\ K8sIdle
  /\ DeployIdle
  /\ SetupIdle
  /\ VersionIdle
  /\ ref_in \in UserRefs
  /\ ref_out = <<>>
  /\ ref_again = <<>>
  /\ ref_pc = "call"

\* clone_with_ref, line 113: let resolved = resolve_git_ref(r).
Resolve ==
  /\ ref_pc = "call"
  /\ ref_out' = ResolveGitRef(ref_in)
  /\ ref_pc' = "resolved"
  /\ UNCHANGED <<ref_in, ref_again>>
  /\ UNCHANGED nonRefVars

\* The resolved ref is given to resolve_git_ref once more.
ResolveAgain ==
  /\ ref_pc = "resolved"
  /\ ref_again' = ResolveGitRef(ref_out)
  /\ ref_pc' = "again"
  /\ UNCHANGED <<ref_in, ref_out>>
  /\ UNCHANGED nonRefVars

RefNext == Resolve \/ ResolveAgain

SpecRef == RefInit /\ [][RefNext]_vars

\* C35: a ref "pr/" + N resolves to "refs/pull/" + N + "/head", every other
\* ref resolves to itself, and resolving a resolved ref changes nothing.
C35_PrRefsMappedOthersUnchanged ==
  /\ ref_pc \in {"resolved", "again"} =>
       IF Len(ref_in) >= 3 /\ ref_in[1] = "p" /\ ref_in[2] = "r" /\ ref_in[3] = "/"
         THEN /\ Len(ref_out) = Len(ref_in) + 12
              /\ SubSeq(ref_out, 1, 10) = REFS_PULL
              /\ \A k \in 4..Len(ref_in) : ref_out[k + 7] = ref_in[k]
              /\ SubSeq(ref_out, Len(ref_out) - 4, Len(ref_out)) = HEAD_SUFFIX
         ELSE ref_out = ref_in
  /\ ref_pc = "again" => ref_again = ref_out

\* C35 witness: "pr/7" was resolved to "refs/pull/7/head", and resolving
\* that again gave the same ref.
C35_Witness ==
  /\ ref_pc = "again"
  /\ ref_in = <<"p", "r", "/", "7">>
  /\ ref_out = <<"r", "e", "f", "s", "/", "p", "u", "l", "l", "/", "7", "/", "h", "e", "a", "d">>
  /\ ref_again = ref_out

\* ------------------------------------------------- ensure_tektonconfig: a concurrent creator

\* C36: when ensure_tektonconfig has finished and TektonConfig "config"
\* exists, it has returned success, also when another actor created the
\* resource after the existence check.
C36_SuccessWheneverConfigExists ==
  (t_pc = "done" /\ tc_exists) => t_result = "ok"

\* What the code does: a create answered AlreadyExists is retried like any
\* other failure, so once the resource exists every later attempt fails and
\* the call ends with the error after tc_max_retries creates.
C36_AlreadyExistsIsRetriedToFailure ==
  /\ (t_pc = "done" /\ t_result = "err") =>
       /\ t_creates = tc_max_retries
       /\ Len(t_errors) = tc_max_retries
  /\ \A i \in DOMAIN t_errors :
       t_errors[i] = "AlreadyExists" =>
         /\ tc_exists
         /\ \A j \in i..Len(t_errors) : t_errors[j] = "AlreadyExists"
         /\ t_result # "ok"

\* ------------------------------------------------- wait_for_reconciliation: the failure message

\* C37: the readiness line of the exhaustion failure describes what the last
\* poll observed: it is present exactly when the poll of attempt max_retries
\* did not see Ready=True, whatever the cluster did afterwards.
C37_MessageReportsLastPoll ==
  w_result = "err_exhausted" =>
    /\ g_ready[1] = max_retries
    /\ FailureMessage(config_ready).not_ready_line = ~g_ready[2]

\* What the code does: the line comes from one more probe made after the
\* loop, so it describes the cluster at that moment (an error of that probe
\* reads as not ready), and readiness is probed max_retries + 1 times.
C37_MessageReportsExtraProbe ==
  /\ [](w_result = "err_exhausted" => w_probes = max_retries + 1)
  /\ [][(w_pc = "final_probe" /\ w_pc' = "done") =>
          /\ ~HasReadyTrue(tc_conditions) => FailureMessage(config_ready').not_ready_line
          /\ ~FailureMessage(config_ready').not_ready_line => HasReadyTrue(tc_conditions)]_vars

\* ------------------------------------------------- main.rs: --dry-run

\* The calls a run command may make when it only prints the plan: run_multi,
\* which returns from print_dry_run_plan when dry_run is set (lines 746-749),
\* and run_batch_historical, which lists the dates and returns.
PlanOnlyCalls == {"run_multi", "run_batch_historical"}

\* C38: a run command with --dry-run makes no call that bootstraps the
\* cluster, builds, deploys or tests, from its start to its exit.
C38_DryRunOnlyPrintsPlan ==
  (a_cmd = "run" /\ a_flags.dry_run) =>
    \A k \in DOMAIN a_events : a_events[k] \in PlanOnlyCalls

\* What the code does with --dry-run: only run_multi and run_batch_historical
\* look at the flag.  The bootstrapper still runs before run_multi unless
\* --no-auto-setup is given, and with --skip-build or inside the cluster the
\* command deploys and tests as if the flag were absent.
C38_DryRunSeenOnlyByRunMulti ==
  (a_cmd = "run" /\ a_flags.dry_run /\ a_pc = "exited") =>
    IF a_flags.date_range THEN a_events = <<"run_batch_historical">>
    ELSE IF a_flags.skip_build \/ a_flags.incluster
      THEN \/ a_events = <<>>
           \/ /\ a_events[1] = "run_auto_setup" <=> ~a_flags.no_auto_setup
              /\ a_exit # 2 => a_events[Len(a_events)] = "run_tests"
      ELSE \/ a_events = <<>>
           \/ /\ a_flags.no_auto_setup
              /\ a_events = <<"run_multi">>
           \/ /\ ~a_flags.no_auto_setup
              /\ a_events = <<"run_auto_setup", "run_multi">>

\* ================================================= deploy/mod.rs: to_internal_registry

\* Longest registry address, in pieces.
MaxRegLen == 4

INTERNAL_REGISTRY == "image-registry.openshift-image-registry.svc:5000"

\* A registry address is a sequence of pieces: the internal service, an
\* external route host, the slash, the default namespace, another namespace.
\* No piece but "/" holds a slash and no piece is the beginning of another,
\* so prefixes and substrings of the address are those of the sequence.
RegPieces ==
  {INTERNAL_REGISTRY, "default-route-openshift-image-registry.apps.example.com", "/",
   "tekton-upstream", "my-namespace"}

RegistryStrings == UNION {[1..n -> RegPieces] : n \in 0..MaxRegLen}

DEFAULT_PATH == <<"/", "tekton-upstream">>

\* registry.find('/'): the position of the first slash, 0 for None.
FindSlash(registry) ==
  IF \E i \in DOMAIN registry : registry[i] = "/"
    THEN CHOOSE i \in DOMAIN registry :
           registry[i] = "/" /\ \A j \in 1..(i - 1) : registry[j] # "/"
    ELSE 0

\* Lines 12-29.
ToInternalRegistry(registry) ==
  IF StartsWith(registry, <<INTERNAL_REGISTRY>>)
    THEN IF ~Contains(registry, DEFAULT_PATH)
           THEN <<INTERNAL_REGISTRY>> \o DEFAULT_PATH
           ELSE registry
    ELSE IF FindSlash(registry) # 0
      THEN <<INTERNAL_REGISTRY>> \o SubSeq(registry, FindSlash(registry), Len(registry))
      ELSE <<INTERNAL_REGISTRY>> \o DEFAULT_PATH

InternalInit ==
  /\ BatchIdle
  /\ RefIdle
  /\ SyncIdle
  /\ RefsIdle
  /\ InvIdle
  /\ FindIdle
  /\ MainIdle
  /\ WaitIdle
  /\ TcIdle
  /\ PatchIdle
  /\ BuildIdle
  /\ K8sIdle
  /\ DeployIdle
  /\ SetupIdle
  /\ VersionIdle
  /\ ir_in \in RegistryStrings
  /\ ir_out = <<>>
  /\ ir_again = <<>>
  /\ ir_pc = "call"

\* deploy/mod.rs, line 56: let internal_registry = to_internal_registry(registry).
Convert ==
  /\ ir_pc = "call"
  /\ ir_out' = ToInternalRegistry(ir_in)
  /\ ir_pc' = "converted"
  /\ UNCHANGED <<ir_in, ir_again>>
  /\ UNCHANGED nonInternalVars

\* The converted address is given to run_deploy as its registry once more.
ConvertAgain ==
  /\ ir_pc = "converted"
  /\ ir_again' = ToInternalRegistry(ir_out)
  /\ ir_pc' = "again"
  /\ UNCHANGED <<ir_in, ir_out>>
  /\ UNCHANGED nonInternalVars

InternalNext == Convert \/ ConvertAgain

SpecInternal == InternalInit /\ [][InternalNext]_vars

\* C39: an address on the internal service is returned unchanged, or with
\* the default namespace when it has no path; an external route keeps its
\* path behind the internal service; and converting a converted address
\* changes nothing.
C39_InternalRegistryIdempotent ==
  /\ ir_pc \in {"converted", "again"} =>
       /\ (ir_in # <<>> /\ ir_in[1] = INTERNAL_REGISTRY) =>
            IF \E i \in DOMAIN ir_in : ir_in[i] = "/"
              THEN ir_out = ir_in
              ELSE /\ ir_out[1] = INTERNAL_REGISTRY
                   /\ SubSeq(ir_out, Len(ir_out) - 1, Len(ir_out)) = <<"/", "tekton-upstream">>
       /\ (ir_in # <<>> /\ ir_in[1] # INTERNAL_REGISTRY /\ \E i \in DOMAIN ir_in : ir_in[i] = "/") =>
            \E i \in DOMAIN ir_in :
              /\ ir_in[i] = "/"
              /\ \A j \in 1..(i - 1) : ir_in[j] # "/"
              /\ ir_out = <<INTERNAL_REGISTRY>> \o SubSeq(ir_in, i, Len(ir_in))
  /\ ir_pc = "again" => ir_again = ir_out

\* What the code guarantees: an external route keeps its path; an address on
\* the internal service is kept only if "/tekton-upstream" occurs in it and
\* is otherwise replaced by the internal service with the default namespace;
\* so a second conversion either changes nothing or yields that default.
C39_OtherNamespaceReplacedByDefault ==
  /\ ir_pc \in {"converted", "again"} =>
       /\ ir_out[1] = INTERNAL_REGISTRY
       /\ (ir_in # <<>> /\ ir_in[1] # INTERNAL_REGISTRY /\ \E i \in DOMAIN ir_in : ir_in[i] = "/") =>
            \E i \in DOMAIN ir_in :
              /\ ir_in[i] = "/"
              /\ \A j \in 1..(i - 1) : ir_in[j] # "/"
              /\ ir_out = <<INTERNAL_REGISTRY>> \o SubSeq(ir_in, i, Len(ir_in))
  /\ ir_pc = "again" =>
       /\ Contains(ir_out, <<"/", "tekton-upstream">>) => ir_again = ir_out
       /\ ~Contains(ir_out, <<"/", "tekton-upstream">>) =>
            ir_again = <<INTERNAL_REGISTRY, "/", "tekton-upstream">>

\* ================================================= main.rs and batch.rs: run_batch_historical

\* Most dates of a range.
MaxDates == 3

\* What the re-invoked binary can exit with: tests passed, tests failed, an
\* error, a panic.
ExitCodes == {0, 1, 2, 101}

\* How cmd.status() can end: an exit code, the child killed by a signal
\* (s.code() is None), or the spawn itself failing.
Statuses ==
  {[kind |-> "exited", code |-> c] : c \in ExitCodes}
    \cup {[kind |-> "signaled", code |-> -1], [kind |-> "spawn_error", code |-> -1]}

\* main.rs lines 1100-1106: Ok(s) => s.code().unwrap_or(2), Err(e) => 2.
StatusExitCode(status) == IF status.kind = "exited" THEN status.code ELSE 2

\* batch.rs lines 74-83: BatchProgress::new.
NewBatchProgress(n) == [current |-> 0, total |-> n, passed |-> 0, failed |-> 0, errors |-> 0]

\* batch.rs lines 85-88: advance.
Advance(p) == [p EXCEPT !.current = @ + 1]

\* Bug variant: only exit code 2 counts as an error.
RecordResult_OnlyCode2(p, code) ==
  CASE code = 0 -> [p EXCEPT !.passed = @ + 1]
    [] code = 1 -> [p EXCEPT !.failed = @ + 1]
    [] code = 2 -> [p EXCEPT !.errors = @ + 1]
    [] OTHER -> p

\* batch.rs lines 90-96: record_result.
RecordResult(p, code) ==
  CASE code = 0 -> [p EXCEPT !.passed = @ + 1]
    [] code = 1 -> [p EXCEPT !.failed = @ + 1]
    [] OTHER -> [p EXCEPT !.errors = @ + 1]

\* main.rs lines 1115-1121: the overall exit code.
OverallExit(p) == IF p.errors > 0 THEN 2 ELSE IF p.failed > 0 THEN 1 ELSE 0

BatchInit ==
  /\ InternalIdle
  /\ RefIdle
  /\ SyncIdle
  /\ RefsIdle
  /\ InvIdle
  /\ FindIdle
  /\ MainIdle
  /\ WaitIdle
  /\ TcIdle
  /\ PatchIdle
  /\ BuildIdle
  /\ K8sIdle
  /\ DeployIdle
  /\ SetupIdle
  /\ VersionIdle
  /\ h_dates \in 1..MaxDates
  /\ h_dry \in BOOLEAN
  /\ h_pc = "start"
  /\ progress = NewBatchProgress(0)
  /\ h_codes = <<>>
  /\ h_exit = -1

\* main.rs lines 1034-1049: generate the dates, create the progress; with
\* dry_run list the dates and return 0.
BatchStart ==
  /\ h_pc = "start"
  /\ progress' = NewBatchProgress(h_dates)
  /\ IF h_dry
       THEN h_pc' = "exited" /\ h_exit' = 0
       ELSE h_pc' = "loop" /\ UNCHANGED h_exit
  /\ UNCHANGED <<h_dates, h_dry, h_codes>>
  /\ UNCHANGED nonBatchVars

\* main.rs lines 1055-1058: the next date of the loop: progress.advance.
BatchAdvance ==
  /\ h_pc = "loop"
  /\ progress.current < h_dates
  /\ progress' = Advance(progress)
  /\ h_pc' = "mkdir"
  /\ UNCHANGED <<h_dates, h_dry, h_codes, h_exit>>
  /\ UNCHANGED nonBatchVars

\* main.rs lines 1060-1066: create the date's output directory; a failure is
\* recorded as exit code 2 and the loop continues.
BatchMkdir ==
  /\ h_pc = "mkdir"
  /\ \E ok \in BOOLEAN :
       IF ok
         THEN /\ h_pc' = "spawn"
              /\ UNCHANGED <<progress, h_codes>>
         ELSE /\ progress' = RecordResult(progress, 2)
              /\ h_codes' = Append(h_codes, 2)
              /\ h_pc' = "loop"
  /\ UNCHANGED <<h_dates, h_dry, h_exit>>
  /\ UNCHANGED nonBatchVars

\* main.rs lines 1068-1109: re-invoke the binary for the date and record its
\* exit code.
BatchRunDate ==
  /\ h_pc = "spawn"
  /\ \E status \in Statuses :
       /\ progress' = RecordResult(progress, StatusExitCode(status))
       /\ h_codes' = Append(h_codes, StatusExitCode(status))
  /\ h_pc' = "loop"
  /\ UNCHANGED <<h_dates, h_dry, h_exit>>
  /\ UNCHANGED nonBatchVars

\* main.rs lines 1112-1122: the summary and the overall exit code.
BatchSummary ==
  /\ h_pc = "loop"
  /\ progress.current >= h_dates
  /\ h_exit' = OverallExit(progress)
  /\ h_pc' = "exited"
  /\ UNCHANGED <<h_dates, h_dry, progress, h_codes>>
  /\ UNCHANGED nonBatchVars

BatchNext ==
  \/ BatchStart
  \/ BatchAdvance
  \/ BatchMkdir
  \/ BatchRunDate
  \/ BatchSummary

SpecBatch == BatchInit /\ [][BatchNext]_vars

\* Number of recorded codes that satisfy a test.
CountCodes(Test(_)) == Cardinality({k \in DOMAIN h_codes : Test(h_codes[k])})

\* C40: when a batch run that is not a dry run returns, every date of the
\* range has exactly one recorded result: current = total = the number of
\* dates, passed, failed and errors count the dates that ended with 0, with
\* 1 and with any other code, so they add up to total; and the return
\* value is 2 if some date ended with an error code, else 1 if some date had
\* failed tests, else 0.
C40_OneResultPerDateAndExitCode ==
  (h_pc = "exited" /\ ~h_dry) =>
    LET IsPass(c) == c = 0
        IsFail(c) == c = 1
        IsError(c) == c \notin {0, 1}
    IN /\ Len(h_codes) = h_dates
       /\ progress.total = h_dates
       /\ progress.current = progress.total
       /\ progress.passed = CountCodes(IsPass)
       /\ progress.failed = CountCodes(IsFail)
       /\ progress.errors = CountCodes(IsError)
       /\ progress.passed + progress.failed + progress.errors = progress.total
       /\ h_exit = IF CountCodes(IsError) > 0 THEN 2
                   ELSE IF CountCodes(IsFail) > 0 THEN 1 ELSE 0

\* C40 witness: a range of three dates: the first passed, the second had
\* failed tests, the third run panicked; the batch returned 2.
C40_Witness ==
  /\ h_pc = "exited"
  /\ h_codes = <<0, 1, 101>>
  /\ progress = [current |-> 3, total |-> 3, passed |-> 1, failed |-> 1, errors |-> 1]
  /\ h_exit = 2

====
